---------------------------- MODULE Spec2Model ----------------------------
(***************************************************************************)
(* A model of the DHCP server of this repository: the per-subnet address   *)
(* pool (ip_manager.Subnet), the multi-subnet manager (ip_manager.         *)
(* IPManager), the lease store (lease_manager.LeaseManager) and the        *)
(* datagram dispatcher (dhcp_server.DHCPServer).                           *)
(*                                                                         *)
(* Representation.  An IPv4 address string is the integer it denotes (the  *)
(* code orders pool addresses by their four numeric parts, which is the    *)
(* order of these integers).  Python's None is the value None below.  A    *)
(* MAC string is a pair <<id, form>>: the hardware address and the textual *)
(* form it is written in; normalisation rewrites the form.  A dict is a    *)
(* function whose DOMAIN is its key set.                                   *)
(***************************************************************************)
EXTENDS Integers, Sequences, FiniteSets, TLC

VARIABLES
    cfg,        \* the configuration the managers were constructed from
    allocated,  \* allocated[s]: Subnet.allocated of the s-th subnet (mac -> ip)
    leases,     \* LeaseManager.leases (mac -> lease record)
    disk,       \* the content of the lease file
    now,        \* the wall clock, datetime.now()
    last        \* what the most recent call or datagram did (observation)

vars == <<cfg, allocated, leases, disk, now, last>>

-----------------------------------------------------------------------------
(* Bounds *)

\* hardware addresses calling the Subnet / IPManager interface
MaxMac == 4
\* hardware addresses of DHCP clients sending datagrams
MaxClient == 2
\* the clock runs from 0 to MaxTime
MaxTime == 1

-----------------------------------------------------------------------------
(* Python values *)

\* None (ip_manager.py: "return None"); no address is negative
None == -1

\* the address '0.0.0.0', the default of DHCPPacket.ciaddr
ZeroIp == 0

EmptyDict == [k \in {} |-> 0]

Values(d) == {d[k] : k \in DOMAIN d}

\* d[k] = v
DictSet(d, k, v) == [x \in (DOMAIN d) \cup {k} |-> IF x = k THEN v ELSE d[x]]

\* d.pop(k)
DictPop(d, k) == [x \in (DOMAIN d) \ {k} |-> d[x]]

\* d.get(k)
DictGet(d, k) == IF k \in DOMAIN d THEN d[k] ELSE None

\* truth value of an address-or-None ("if requested_ip", "if ip"): a
\* dotted-quad string is never empty
Truthy(ip) == ip # None

-----------------------------------------------------------------------------
(* MAC strings *)

\* "lc": aa:bb:cc:dd:ee:ff     "UD": AA-BB-CC-DD-EE-FF
MacForms == {"lc", "UD"}

Mac(id) == <<id, "lc">>

MacStrings(n) == {<<id, f>> : id \in 1..n, f \in MacForms}

\* '-' and '.' become ':', letters are lowered, and the six parts are joined
\* again: both forms of a hardware address become its "lc" form
_normalize_mac(mac) == <<mac[1], "lc">>

-----------------------------------------------------------------------------
(* Configurations: what Subnet.__init__ and IPManager.__init__ build *)

\* a Subnet object: every subnet is given the same mask and DNS list, which
\* differ from the server's own
MkSubnet(name, network, pool, gateway, reservations) ==
    [name |-> name, network |-> network, pool |-> pool, gateway |-> gateway,
     reservations |-> reservations, subnet_mask |-> 240, dns_servers |-> <<7>>]

\* 3-address pool, no reservations
LanPlain == MkSubnet("lan", 10..19, 11..13, 10, EmptyDict)

\* one reservation inside the pool, one outside it
LanReserved ==
    MkSubnet("lan", 10..19, 11..13, 10, (Mac(1) :> 12) @@ (Mac(2) :> 15))

LanSmall == MkSubnet("lan", 10..19, 11..12, 10, (Mac(1) :> 15))

Dmz == MkSubnet("dmz", 20..29, 21..22, None, (Mac(2) :> 21))

\* subnets and global_reservations are IPManager's; lease_time and the
\* server's own address, mask, gateway and DNS list are DHCPServer's
\* (config['server_ip'], ['subnet_mask'], ['gateway'], ['dns_servers'])
MkConfig(subnets, global_reservations, lease_time) ==
    [subnets |-> subnets, global_reservations |-> global_reservations,
     lease_time |-> lease_time,
     server_ip |-> 1, subnet_mask |-> 255, gateway |-> 2, dns_servers |-> <<8, 9>>]

CfgPlain == MkConfig(<<LanPlain>>, EmptyDict, 2)

CfgReserved == MkConfig(<<LanReserved>>, EmptyDict, 1)

CfgTwo == MkConfig(<<LanSmall, Dmz>>, EmptyDict, 1)

CfgSmall == MkConfig(<<LanSmall>>, EmptyDict, 1)

\* a subnet behind a relay: its gateway (the relay's address) lies outside
\* its address block; one pool address, no reservations
Remote == MkSubnet("remote", 30..39, 31..31, 40, EmptyDict)

\* two subnets and two global reservations: one of an address inside the
\* first subnet's pool, one of an address no subnet contains
CfgManager ==
    MkConfig(<<LanSmall, Remote>>, (Mac(3) :> 12) @@ (Mac(4) :> 50), 1)

\* one subnet without reservations of its own, and a global reservation of
\* an address inside its pool
CfgGlobal == MkConfig(<<LanPlain>>, (Mac(2) :> 12), 1)

\* one subnet without reservations; a lease runs one unit of time
CfgRestart == MkConfig(<<LanPlain>>, EmptyDict, 1)

\* the configurations whose subnets are called directly
SubnetConfigs == {CfgPlain, CfgReserved, CfgSmall}

\* the requested addresses tried on a subnet: none, every pool address, a
\* reserved address outside the pool, an address outside the network
ReqIps == {None, 11, 12, 13, 15, 21}

-----------------------------------------------------------------------------
(* ip_manager.Subnet *)

\* sorted(self.pool, key=numeric parts)
RECURSIVE SortedPool(_)
SortedPool(pool) ==
    IF pool = {} THEN <<>>
    ELSE LET lo == CHOOSE a \in pool : \A b \in pool : a <= b
         IN  <<lo>> \o SortedPool(pool \ {lo})

\* (variant) the scan keeps the last available address instead of the first
Mutant_LastAvailable(order, i, reserved_ips, alloc) ==
    LET free == {order[k] : k \in i..Len(order)} \ (reserved_ips \cup Values(alloc))
    IN  IF free = {} THEN None ELSE CHOOSE a \in free : \A b \in free : b <= a

\* the for loop of allocate_for_mac: the first address of the sorted pool
\* that is not reserved and not allocated, or None when the loop ends
RECURSIVE FirstAvailable(_, _, _, _)
FirstAvailable(order, i, reserved_ips, alloc) ==
    IF i > Len(order) THEN None
    ELSE IF order[i] \notin reserved_ips /\ order[i] \notin Values(alloc)
         THEN order[i]
         ELSE FirstAvailable(order, i + 1, reserved_ips, alloc)

\* (variant) the requested address is granted without looking at
\* self.allocated.values()
Mutant_GrantAllocatedRequest(subnet, alloc, mac, requested_ip) ==
    IF /\ Truthy(requested_ip)
       /\ requested_ip \in subnet.pool
       /\ requested_ip \notin Values(subnet.reservations)
    THEN [ret |-> requested_ip, allocated |-> DictSet(alloc, mac, requested_ip)]
    ELSE LET ip == FirstAvailable(SortedPool(subnet.pool), 1,
                                  Values(subnet.reservations), alloc)
         IN  IF ip # None
             THEN [ret |-> ip, allocated |-> DictSet(alloc, mac, ip)]
             ELSE [ret |-> None, allocated |-> alloc]

\* (variant) the requested address is granted without looking at
\* self.reservations.values(), and the scan skips allocated addresses only
Mutant_GrantReservedRequest(subnet, alloc, mac, requested_ip) ==
    IF /\ Truthy(requested_ip)
       /\ requested_ip \in subnet.pool
       /\ requested_ip \notin Values(alloc)
    THEN [ret |-> requested_ip, allocated |-> DictSet(alloc, mac, requested_ip)]
    ELSE LET ip == FirstAvailable(SortedPool(subnet.pool), 1,
                                  Values(subnet.reservations), alloc)
         IN  IF ip # None
             THEN [ret |-> ip, allocated |-> DictSet(alloc, mac, ip)]
             ELSE [ret |-> None, allocated |-> alloc]

\* (variant) the requested address is ignored: always the first available
Mutant_IgnoreRequest(subnet, alloc, mac, requested_ip) ==
    LET ip == FirstAvailable(SortedPool(subnet.pool), 1,
                             Values(subnet.reservations), alloc)
    IN  IF ip # None
        THEN [ret |-> ip, allocated |-> DictSet(alloc, mac, ip)]
        ELSE [ret |-> None, allocated |-> alloc]

\* lines 69-87 of allocate_for_mac: honour the requested address if it is
\* in the pool, not reserved and not allocated; else the first available
allocate_dynamic(subnet, alloc, mac, requested_ip) ==
    IF /\ Truthy(requested_ip)
       /\ requested_ip \in subnet.pool
       /\ requested_ip \notin Values(subnet.reservations)
       /\ requested_ip \notin Values(alloc)
    THEN [ret |-> requested_ip, allocated |-> DictSet(alloc, mac, requested_ip)]
    ELSE LET ip == FirstAvailable(SortedPool(subnet.pool), 1,
                                  Values(subnet.reservations), alloc)
         IN  IF ip # None
             THEN [ret |-> ip, allocated |-> DictSet(alloc, mac, ip)]
             ELSE [ret |-> None, allocated |-> alloc]

\* (variant) no "Already allocated?" test: every call allocates afresh
Mutant_NoExistingCheck(subnet, alloc, rawmac, requested_ip) ==
    LET mac == _normalize_mac(rawmac)
    IN  IF mac \in DOMAIN subnet.reservations
        THEN [ret |-> subnet.reservations[mac],
              allocated |-> DictSet(alloc, mac, subnet.reservations[mac])]
        ELSE allocate_dynamic(subnet, alloc, mac, requested_ip)

\* (variant) the requested address is tried before the reservation table
Mutant_RequestBeforeReservation(subnet, alloc, rawmac, requested_ip) ==
    LET mac == _normalize_mac(rawmac)
    IN  IF mac \in DOMAIN alloc
        THEN [ret |-> alloc[mac], allocated |-> alloc]
        ELSE IF Truthy(requested_ip) /\ requested_ip \in subnet.pool
        THEN allocate_dynamic(subnet, alloc, mac, requested_ip)
        ELSE IF mac \in DOMAIN subnet.reservations
        THEN [ret |-> subnet.reservations[mac],
              allocated |-> DictSet(alloc, mac, subnet.reservations[mac])]
        ELSE allocate_dynamic(subnet, alloc, mac, requested_ip)

\* Subnet.allocate_for_mac: [ret |-> the address returned,
\*                           allocated |-> self.allocated afterwards]
allocate_for_mac(subnet, alloc, rawmac, requested_ip) ==
    LET mac == _normalize_mac(rawmac)
    IN  IF mac \in DOMAIN subnet.reservations
        THEN [ret |-> subnet.reservations[mac],
              allocated |-> DictSet(alloc, mac, subnet.reservations[mac])]
        ELSE IF mac \in DOMAIN alloc
        THEN [ret |-> alloc[mac], allocated |-> alloc]
        ELSE allocate_dynamic(subnet, alloc, mac, requested_ip)

\* (variant) release reports success but keeps the entry
Mutant_ReleaseKeepsEntry(subnet, alloc, rawmac) ==
    LET mac == _normalize_mac(rawmac)
    IN  [ret |-> mac \in DOMAIN alloc, allocated |-> alloc]

\* Subnet.release: [ret |-> whether an entry was removed, allocated |-> ...]
release(subnet, alloc, rawmac) ==
    LET mac == _normalize_mac(rawmac)
    IN  IF mac \in DOMAIN alloc
        THEN [ret |-> TRUE, allocated |-> DictPop(alloc, mac)]
        ELSE [ret |-> FALSE, allocated |-> alloc]

\* (variant) get_ip_for_mac looks in the allocation table only
Mutant_GetAllocatedOnly(subnet, alloc, rawmac) ==
    DictGet(alloc, _normalize_mac(rawmac))

\* Subnet.get_ip_for_mac
get_ip_for_mac(subnet, alloc, rawmac) ==
    LET mac == _normalize_mac(rawmac)
    IN  IF mac \in DOMAIN subnet.reservations
        THEN subnet.reservations[mac]
        ELSE DictGet(alloc, mac)

\* Subnet.has_ip
has_ip(subnet, ip) == ip \in subnet.network

-----------------------------------------------------------------------------
(* ip_manager.IPManager *)

\* "no subnet": the None that _find_subnet_by_* and allocate_ip return
NoSubnet == 0

\* the for loop of _find_subnet_by_giaddr, from the i-th subnet on
RECURSIVE FindByGiaddrFrom(_, _, _)
FindByGiaddrFrom(subnets, i, giaddr) ==
    IF i > Len(subnets) THEN NoSubnet
    ELSE IF Truthy(subnets[i].gateway) /\ giaddr = subnets[i].gateway THEN i
    ELSE IF has_ip(subnets[i], giaddr) THEN i
    ELSE FindByGiaddrFrom(subnets, i + 1, giaddr)

\* IPManager._find_subnet_by_giaddr
_find_subnet_by_giaddr(subnets, giaddr) ==
    IF ~Truthy(giaddr) THEN NoSubnet ELSE FindByGiaddrFrom(subnets, 1, giaddr)

\* the for loop of _find_subnet_by_requested_ip, from the i-th subnet on
RECURSIVE FindByRequestedIpFrom(_, _, _)
FindByRequestedIpFrom(subnets, i, requested_ip) ==
    IF i > Len(subnets) THEN NoSubnet
    ELSE IF has_ip(subnets[i], requested_ip) THEN i
    ELSE FindByRequestedIpFrom(subnets, i + 1, requested_ip)

\* IPManager._find_subnet_by_requested_ip
_find_subnet_by_requested_ip(subnets, requested_ip) ==
    IF ~Truthy(requested_ip) THEN NoSubnet
    ELSE FindByRequestedIpFrom(subnets, 1, requested_ip)

\* allocate_ip's delegation to one subnet: (ip, subnet) and the tables after
AllocateIn(c, alloc, s, rawmac, requested_ip) ==
    LET r == allocate_for_mac(c.subnets[s], alloc[s], rawmac, requested_ip)
    IN  [ip |-> r.ret, subnet |-> s, allocated |-> [alloc EXCEPT ![s] = r.allocated]]

\* allocate_ip's fallback loop from the i-th subnet on: the first subnet
\* whose allocate_for_mac(mac, None) returns an address
RECURSIVE AllocateFallbackFrom(_, _, _, _)
AllocateFallbackFrom(c, alloc, i, rawmac) ==
    IF i > Len(c.subnets) THEN [ip |-> None, subnet |-> NoSubnet, allocated |-> alloc]
    ELSE LET r == AllocateIn(c, alloc, i, rawmac, None)
         IN  IF Truthy(r.ip) THEN r
             ELSE AllocateFallbackFrom(c, r.allocated, i + 1, rawmac)

\* (variant) the global reservation table is consulted after giaddr
Mutant_GiaddrBeforeGlobal(c, alloc, rawmac, requested_ip, giaddr) ==
    LET mac_norm == _normalize_mac(rawmac)
        by_giaddr == _find_subnet_by_giaddr(c.subnets, giaddr)
        by_request == _find_subnet_by_requested_ip(c.subnets, requested_ip)
    IN  IF by_giaddr # NoSubnet
        THEN AllocateIn(c, alloc, by_giaddr, rawmac, requested_ip)
        ELSE IF mac_norm \in DOMAIN c.global_reservations
        THEN [ip |-> c.global_reservations[mac_norm],
              subnet |-> _find_subnet_by_requested_ip(
                             c.subnets, c.global_reservations[mac_norm]),
              allocated |-> alloc]
        ELSE IF by_request # NoSubnet
        THEN AllocateIn(c, alloc, by_request, rawmac, requested_ip)
        ELSE AllocateFallbackFrom(c, alloc, 1, rawmac)

\* (variant) the subnet of the requested address is tried before giaddr
Mutant_RequestBeforeGiaddr(c, alloc, rawmac, requested_ip, giaddr) ==
    LET mac_norm == _normalize_mac(rawmac)
        by_giaddr == _find_subnet_by_giaddr(c.subnets, giaddr)
        by_request == _find_subnet_by_requested_ip(c.subnets, requested_ip)
    IN  IF mac_norm \in DOMAIN c.global_reservations
        THEN [ip |-> c.global_reservations[mac_norm],
              subnet |-> _find_subnet_by_requested_ip(
                             c.subnets, c.global_reservations[mac_norm]),
              allocated |-> alloc]
        ELSE IF by_request # NoSubnet
        THEN AllocateIn(c, alloc, by_request, rawmac, requested_ip)
        ELSE IF by_giaddr # NoSubnet
        THEN AllocateIn(c, alloc, by_giaddr, rawmac, requested_ip)
        ELSE AllocateFallbackFrom(c, alloc, 1, rawmac)

\* IPManager.allocate_ip: the tuple (ip, subnet) and the tables afterwards
allocate_ip(c, alloc, rawmac, requested_ip, giaddr) ==
    LET mac_norm == _normalize_mac(rawmac)
        by_giaddr == _find_subnet_by_giaddr(c.subnets, giaddr)
        by_request == _find_subnet_by_requested_ip(c.subnets, requested_ip)
    IN  IF mac_norm \in DOMAIN c.global_reservations
        THEN [ip |-> c.global_reservations[mac_norm],
              subnet |-> _find_subnet_by_requested_ip(
                             c.subnets, c.global_reservations[mac_norm]),
              allocated |-> alloc]
        ELSE IF by_giaddr # NoSubnet
        THEN AllocateIn(c, alloc, by_giaddr, rawmac, requested_ip)
        ELSE IF by_request # NoSubnet
        THEN AllocateIn(c, alloc, by_request, rawmac, requested_ip)
        ELSE AllocateFallbackFrom(c, alloc, 1, rawmac)

\* the for loop of get_ip, from the i-th subnet on
RECURSIVE GetIpFrom(_, _, _, _)
GetIpFrom(c, alloc, i, rawmac) ==
    IF i > Len(c.subnets) THEN None
    ELSE LET ip == get_ip_for_mac(c.subnets[i], alloc[i], rawmac)
         IN  IF Truthy(ip) THEN ip ELSE GetIpFrom(c, alloc, i + 1, rawmac)

\* IPManager.get_ip
get_ip(c, alloc, rawmac) ==
    LET mac_norm == _normalize_mac(rawmac)
    IN  IF mac_norm \in DOMAIN c.global_reservations
        THEN c.global_reservations[mac_norm]
        ELSE GetIpFrom(c, alloc, 1, rawmac)

\* the for loop of release_ip, from the i-th subnet on: it returns at the
\* first subnet whose release reports an entry
RECURSIVE ReleaseIpFrom(_, _, _, _)
ReleaseIpFrom(c, alloc, i, rawmac) ==
    IF i > Len(c.subnets) THEN [ret |-> FALSE, allocated |-> alloc]
    ELSE LET r == release(c.subnets[i], alloc[i], rawmac)
         IN  IF r.ret
             THEN [ret |-> TRUE, allocated |-> [alloc EXCEPT ![i] = r.allocated]]
             ELSE ReleaseIpFrom(c, alloc, i + 1, rawmac)

\* IPManager.release_ip
release_ip(c, alloc, rawmac) == ReleaseIpFrom(c, alloc, 1, rawmac)

-----------------------------------------------------------------------------
(* lease_manager.LeaseManager *)

\* how the write of the lease file ends: it succeeds; open() fails and the
\* file stays as it was; or the write fails after open() truncated the file
IoOutcomes == {"ok", "open_failed", "write_failed"}

\* a lease file that was truncated and not completely rewritten: no JSON
\* document.  It is written as a map with one key that is no MAC string,
\* so that it can be compared with the lease maps.
Truncated == (<<0, "truncated">> :> [truncated |-> TRUE])

\* LeaseManager.save_leases: the file afterwards (errors are logged only)
save_leases(ls, file, io) ==
    IF io = "ok" THEN ls
    ELSE IF io = "open_failed" THEN file
    ELSE Truncated

\* create_lease with expires_at = now: the duration is left out
Mutant_LeaseWithoutDuration(ls, file, mac_address, ip_address, lease_time, t, io) ==
    LET new == DictSet(ls, mac_address,
                       [ip_address |-> ip_address, start_time |-> t,
                        expires_at |-> t, lease_time |-> lease_time])
    IN  [leases |-> new, disk |-> save_leases(new, file, io)]

\* (variant) a failed write takes the new record back
Mutant_CreateRollsBack(ls, file, mac_address, ip_address, lease_time, t, io) ==
    LET new == DictSet(ls, mac_address,
                       [ip_address |-> ip_address, start_time |-> t,
                        expires_at |-> t + lease_time, lease_time |-> lease_time])
    IN  IF io = "ok" THEN [leases |-> new, disk |-> save_leases(new, file, io)]
        ELSE [leases |-> ls, disk |-> save_leases(new, file, io)]

\* LeaseManager.create_lease: [leases, disk] afterwards; the timestamps are
\* written with isoformat() and read back with fromisoformat(), which
\* returns the datetime written
create_lease(ls, file, mac_address, ip_address, lease_time, t, io) ==
    LET new == DictSet(ls, mac_address,
                       [ip_address |-> ip_address, start_time |-> t,
                        expires_at |-> t + lease_time, lease_time |-> lease_time])
    IN  [leases |-> new, disk |-> save_leases(new, file, io)]

\* (variant) release_lease removes the record and does not save
Mutant_ReleaseWithoutSave(ls, file, mac_address, io) ==
    IF mac_address \in DOMAIN ls
    THEN [ret |-> TRUE, leases |-> DictPop(ls, mac_address), disk |-> file]
    ELSE [ret |-> FALSE, leases |-> ls, disk |-> file]

\* LeaseManager.release_lease: [ret, leases, disk]
release_lease(ls, file, mac_address, io) ==
    IF mac_address \in DOMAIN ls
    THEN LET new == DictPop(ls, mac_address)
         IN  [ret |-> TRUE, leases |-> new, disk |-> save_leases(new, file, io)]
    ELSE [ret |-> FALSE, leases |-> ls, disk |-> file]

\* LeaseManager.load_leases: the leases read from the lease file; without
\* a file (none has been written: the file model is the empty map) and
\* with a file json.load fails on, the store starts empty
load_leases(file) ==
    IF file = Truncated THEN EmptyDict ELSE file

\* create_lease's "if lease_time is None: lease_time = self.default_lease_time"
effective_lease_time(default_lease_time, lease_time) ==
    IF lease_time = None THEN default_lease_time ELSE lease_time

\* LeaseManager.get_lease
get_lease(ls, mac_address) == DictGet(ls, mac_address)

\* (variant) a lease is still valid at the instant it expires
Mutant_ValidAtExpiry(ls, mac_address, t) ==
    IF mac_address \notin DOMAIN ls THEN FALSE
    ELSE t <= get_lease(ls, mac_address).expires_at

\* LeaseManager.is_lease_valid at time t; "not lease" holds of the None
\* that get_lease returns for a MAC without record
is_lease_valid(ls, mac_address, t) ==
    IF mac_address \notin DOMAIN ls THEN FALSE
    ELSE t < get_lease(ls, mac_address).expires_at

\* (variant) a lease is removed only after the instant it expires
Mutant_CleanupAfterExpiry(ls, file, t, io) ==
    LET expired == {mac \in DOMAIN ls : t > ls[mac].expires_at}
        new == [mac \in (DOMAIN ls) \ expired |-> ls[mac]]
    IN  [ret |-> Cardinality(expired), leases |-> new,
         disk |-> IF expired # {} THEN save_leases(new, file, io) ELSE file]

\* LeaseManager.cleanup_expired_leases at time t: [ret, leases, disk]
cleanup_expired_leases(ls, file, t, io) ==
    LET expired == {mac \in DOMAIN ls : t >= ls[mac].expires_at}
        new == [mac \in (DOMAIN ls) \ expired |-> ls[mac]]
    IN  [ret |-> Cardinality(expired), leases |-> new,
         disk |-> IF expired # {} THEN save_leases(new, file, io) ELSE file]

-----------------------------------------------------------------------------
(* Calls on one Subnet object *)

Subnets == 1..Len(cfg.subnets)

NoCall == [op |-> "none"]

\* construction: every allocation table is empty, no lease file exists
InitState(configs) ==
    /\ cfg \in configs
    /\ allocated = [s \in 1..Len(cfg.subnets) |-> EmptyDict]
    /\ leases = EmptyDict
    /\ disk = EmptyDict
    /\ now = 0
    /\ last = NoCall

CallAllocateForMac(s, rawmac, requested_ip) ==
    LET r == allocate_for_mac(cfg.subnets[s], allocated[s], rawmac, requested_ip)
    IN  /\ allocated' = [allocated EXCEPT ![s] = r.allocated]
        /\ last' = [op |-> "allocate_for_mac", sub |-> s,
                    mac |-> _normalize_mac(rawmac), req |-> requested_ip,
                    ret |-> r.ret, pre |-> allocated[s]]
        /\ UNCHANGED <<cfg, leases, disk, now>>

CallRelease(s, rawmac) ==
    LET r == release(cfg.subnets[s], allocated[s], rawmac)
    IN  /\ allocated' = [allocated EXCEPT ![s] = r.allocated]
        /\ last' = [op |-> "release", sub |-> s,
                    mac |-> _normalize_mac(rawmac), req |-> None,
                    ret |-> r.ret, pre |-> allocated[s]]
        /\ UNCHANGED <<cfg, leases, disk, now>>

InitSubnet == InitState(SubnetConfigs)

NextSubnet ==
    \/ \E s \in Subnets, m \in MacStrings(MaxMac), x \in ReqIps :
          CallAllocateForMac(s, m, x)
    \/ \E s \in Subnets, m \in MacStrings(MaxMac) : CallRelease(s, m)

SpecSubnet == InitSubnet /\ [][NextSubnet]_vars

-----------------------------------------------------------------------------
(* Calls on the IPManager *)

\* the configurations whose IPManager is called directly
ManagerConfigs == {CfgManager}

\* the requested addresses tried: none, one in each subnet's pool, one that
\* no subnet contains
ManagerReqIps == {None, 12, 31, 50}

\* the relay addresses tried: none, the first subnet's gateway (inside its
\* block), an address inside the second subnet's block, the second subnet's
\* gateway (outside every block)
Giaddrs == {None, 10, 35, 40}

CallAllocateIp(rawmac, requested_ip, giaddr) ==
    LET r == allocate_ip(cfg, allocated, rawmac, requested_ip, giaddr)
    IN  /\ allocated' = r.allocated
        /\ last' = [op |-> "allocate_ip", mac |-> _normalize_mac(rawmac),
                    req |-> requested_ip, giaddr |-> giaddr,
                    ip |-> r.ip, subnet |-> r.subnet]
        /\ UNCHANGED <<cfg, leases, disk, now>>

CallReleaseIp(rawmac) ==
    LET r == release_ip(cfg, allocated, rawmac)
    IN  /\ allocated' = r.allocated
        /\ last' = [op |-> "release_ip", mac |-> _normalize_mac(rawmac),
                    ret |-> r.ret]
        /\ UNCHANGED <<cfg, leases, disk, now>>

InitManager == InitState(ManagerConfigs)

NextManager ==
    \/ \E m \in MacStrings(MaxMac), x \in ManagerReqIps, g \in Giaddrs :
          CallAllocateIp(m, x, g)
    \/ \E m \in MacStrings(MaxMac) : CallReleaseIp(m)

SpecManager == InitManager /\ [][NextManager]_vars

\* the same calls on an IPManager whose second subnet has a reservation
InitLater == InitState({CfgTwo})

SpecLater == InitLater /\ [][NextManager]_vars

-----------------------------------------------------------------------------
(* Calls on the LeaseManager, with a lease file every write of which
   succeeds *)

\* the configuration whose lease_time is the store's default_lease_time
LeaseConfigs == {CfgSmall}

\* the addresses leases are created for
LeaseIps == {11, 12}

\* the lease_time arguments of create_lease: left out, zero, and one longer
\* than the default
Durations == {None, 0, 2}

CallCreateLease(mac_address, ip_address, lease_time) ==
    LET r == create_lease(leases, disk, mac_address, ip_address,
                          effective_lease_time(cfg.lease_time, lease_time),
                          now, "ok")
    IN  /\ leases' = r.leases
        /\ disk' = r.disk
        /\ last' = [op |-> "create_lease", mac |-> mac_address,
                    ip |-> ip_address, lease_time |-> lease_time]
        /\ UNCHANGED <<cfg, allocated, now>>

CallReleaseLease(mac_address) ==
    LET r == release_lease(leases, disk, mac_address, "ok")
    IN  /\ leases' = r.leases
        /\ disk' = r.disk
        /\ last' = [op |-> "release_lease", mac |-> mac_address, ret |-> r.ret]
        /\ UNCHANGED <<cfg, allocated, now>>

CallIsLeaseValid(mac_address) ==
    /\ last' = [op |-> "is_lease_valid", mac |-> mac_address,
                ret |-> is_lease_valid(leases, mac_address, now)]
    /\ UNCHANGED <<cfg, allocated, leases, disk, now>>

CallCleanup ==
    LET r == cleanup_expired_leases(leases, disk, now, "ok")
    IN  /\ leases' = r.leases
        /\ disk' = r.disk
        /\ last' = [op |-> "cleanup_expired_leases", ret |-> r.ret]
        /\ UNCHANGED <<cfg, allocated, now>>

\* time passes between calls
Elapse ==
    /\ now < MaxTime
    /\ now' = now + 1
    /\ last' = [op |-> "tick"]
    /\ UNCHANGED <<cfg, allocated, leases, disk>>

InitLease == InitState(LeaseConfigs)

NextLease ==
    \/ \E m \in 1..MaxClient, a \in LeaseIps, d \in Durations :
          CallCreateLease(Mac(m), a, d)
    \/ \E m \in 1..MaxClient : CallReleaseLease(Mac(m))
    \/ \E m \in 1..MaxClient : CallIsLeaseValid(Mac(m))
    \/ CallCleanup
    \/ Elapse

SpecLease == InitLease /\ [][NextLease]_vars

-----------------------------------------------------------------------------
(* Calls on the LeaseManager, with a lease file whose writes can fail; last
   keeps how the write of the call ended, if the call wrote *)

CallCreateLeaseIo(mac_address, ip_address, lease_time, io) ==
    LET r == create_lease(leases, disk, mac_address, ip_address,
                          effective_lease_time(cfg.lease_time, lease_time),
                          now, io)
    IN  /\ leases' = r.leases
        /\ disk' = r.disk
        /\ last' = [op |-> "create_lease", mac |-> mac_address,
                    ip |-> ip_address, lease_time |-> lease_time, io |-> io]
        /\ UNCHANGED <<cfg, allocated, now>>

CallReleaseLeaseIo(mac_address, io) ==
    LET r == release_lease(leases, disk, mac_address, io)
    IN  /\ leases' = r.leases
        /\ disk' = r.disk
        /\ last' = [op |-> "release_lease", mac |-> mac_address,
                    ret |-> r.ret, io |-> io]
        /\ UNCHANGED <<cfg, allocated, now>>

CallCleanupIo(io) ==
    LET r == cleanup_expired_leases(leases, disk, now, io)
    IN  /\ leases' = r.leases
        /\ disk' = r.disk
        /\ last' = [op |-> "cleanup_expired_leases", ret |-> r.ret, io |-> io]
        /\ UNCHANGED <<cfg, allocated, now>>

\* get_lease returns the record, or None; last keeps the address of the
\* record returned
CallGetLease(mac_address) ==
    /\ last' = [op |-> "get_lease", mac |-> mac_address,
                found |-> mac_address \in DOMAIN leases,
                ip |-> IF mac_address \in DOMAIN leases
                       THEN get_lease(leases, mac_address).ip_address
                       ELSE None]
    /\ UNCHANGED <<cfg, allocated, leases, disk, now>>

\* the lease_time arguments tried here: left out, and zero (a lease that
\* has expired when it is written)
IoDurations == {None, 0}

NextLeaseIo ==
    \/ \E m \in 1..MaxClient, a \in LeaseIps, d \in IoDurations, io \in IoOutcomes :
          CallCreateLeaseIo(Mac(m), a, d, io)
    \/ \E m \in 1..MaxClient, io \in IoOutcomes : CallReleaseLeaseIo(Mac(m), io)
    \/ \E io \in IoOutcomes : CallCleanupIo(io)
    \/ \E m \in 1..MaxClient : CallIsLeaseValid(Mac(m))
    \/ \E m \in 1..MaxClient : CallGetLease(Mac(m))
    \/ Elapse

SpecLeaseIo == InitLease /\ [][NextLeaseIo]_vars

-----------------------------------------------------------------------------
(* dhcp_packet: the datagrams received and the packets sent *)

\* DHCPMessageType
DISCOVER == 1
OFFER == 2
REQUEST == 3
DECLINE == 4
ACK == 5
NAK == 6
RELEASE == 7
INFORM == 8

\* DHCPOpCode.BOOTREPLY
BOOTREPLY == 2

\* A received datagram, by what DHCPPacket.parse reads from it:
\*   long_enough  len(data) >= 236
\*   cookie       bytes 236..239 are the magic cookie
\*   xid, ciaddr  header fields
\*   chaddr       the hardware address in the header (a client id)
\*   opt53        the value of option 53 among the option bytes: "absent",
\*                or its bytes as a sequence
\*   opt50        the value of option 50: "absent", or [len, ip], the number
\*                of bytes and the address four bytes denote
MkDatagram(long_enough, cookie, chaddr, ciaddr, opt53, opt50) ==
    [long_enough |-> long_enough, cookie |-> cookie, xid |-> 7, chaddr |-> chaddr,
     ciaddr |-> ciaddr, opt53 |-> opt53, opt50 |-> opt50]

Absent == [present |-> FALSE]

Opt53(bytes) == [present |-> TRUE, bytes |-> bytes]

Opt50(len, ip) == [present |-> TRUE, len |-> len, ip |-> ip]

\* the addresses clients put in option 50 and in ciaddr
ClientIps == {11, 12, 15, 21}

\* message-type bytes tried: the three handled codes, DECLINE and INFORM,
\* and two bytes that are no DHCPMessageType
TypeBytes == {0, DISCOVER, REQUEST, DECLINE, RELEASE, INFORM, 9}

\* option 50 as clients send it: absent, two bytes long, or an address
Opt50Values == {Absent, Opt50(2, None)} \cup {Opt50(4, ip) : ip \in ClientIps}

\* the datagrams tried: one too short; ones with a bad cookie; ones without
\* option 53 or with an empty one; every message type from every client;
\* and DISCOVER and REQUEST with every option 50, REQUEST also with every
\* client address where no option 50 overrides it
Datagrams ==
    {MkDatagram(FALSE, FALSE, 1, ZeroIp, Absent, Absent)}
    \cup {MkDatagram(TRUE, FALSE, c, ZeroIp, Opt53(<<t>>), Absent) :
             c \in 1..MaxClient, t \in {DISCOVER, RELEASE}}
    \cup {MkDatagram(TRUE, TRUE, c, ZeroIp, t, Absent) :
             c \in 1..MaxClient, t \in {Absent, Opt53(<<>>)}}
    \cup {MkDatagram(TRUE, TRUE, c, ZeroIp, Opt53(<<t>>), Absent) :
             c \in 1..MaxClient, t \in TypeBytes}
    \cup {MkDatagram(TRUE, TRUE, c, ZeroIp, Opt53(<<t>>), r) :
             c \in 1..MaxClient, t \in {DISCOVER, REQUEST}, r \in Opt50Values}
    \cup {MkDatagram(TRUE, TRUE, c, a, Opt53(<<REQUEST>>), Absent) :
             c \in 1..MaxClient, a \in ClientIps}

\* DHCPPacket.parse: [ok |-> FALSE] for the ValueError, else the packet;
\* without the cookie the options stay empty
parse(data) ==
    IF ~data.long_enough THEN [ok |-> FALSE]
    ELSE [ok |-> TRUE, xid |-> data.xid, chaddr |-> data.chaddr,
          ciaddr |-> data.ciaddr,
          opt53 |-> IF data.cookie THEN data.opt53 ELSE Absent,
          opt50 |-> IF data.cookie THEN data.opt50 ELSE Absent]

\* DHCPPacket.get_message_type: options[53][0]; an empty value raises
\* IndexError
get_message_type(packet) ==
    IF ~packet.opt53.present THEN [raised |-> FALSE, value |-> None]
    ELSE IF Len(packet.opt53.bytes) = 0 THEN [raised |-> TRUE, value |-> None]
    ELSE [raised |-> FALSE, value |-> packet.opt53.bytes[1]]

\* DHCPPacket.get_client_mac: lower-case hex bytes joined by ':'
get_client_mac(packet) == <<packet.chaddr, "lc">>

\* DHCPPacket.get_requested_ip: inet_ntoa raises unless the value has 4 bytes
get_requested_ip(packet) ==
    IF ~packet.opt50.present THEN [raised |-> FALSE, value |-> None]
    ELSE IF packet.opt50.len # 4 THEN [raised |-> TRUE, value |-> None]
    ELSE [raised |-> FALSE, value |-> packet.opt50.ip]

\* DHCPMessageType(msg_type) raises ValueError for a code that is no member
IsMessageType(msg_type) == msg_type \in DISCOVER..INFORM

\* DHCPPacket.__str__ (handle_request logs the packet): it raises for a
\* nonzero code that is no DHCPMessageType
StrRaises(msg_type) == msg_type # 0 /\ ~IsMessageType(msg_type)

\* Python values whose type decides what the code does with them
PyStr(x) == [type |-> "str", value |-> x]

PyTuple(t) == [type |-> "tuple", value |-> t]

\* "not x" is true of an empty tuple and of no string the code handles
PyTruthy(v) == IF v.type = "tuple" THEN Len(v.value) # 0 ELSE TRUE

\* socket.inet_aton raises TypeError unless its argument is a str
InetAtonRaises(v) == v.type # "str"

\* DHCPPacket.build: [ok |-> FALSE] when packing an address field raises,
\* else the bytes, given by the fields they encode
build(packet) ==
    IF \/ InetAtonRaises(packet.ciaddr) \/ InetAtonRaises(packet.yiaddr)
       \/ InetAtonRaises(packet.siaddr) \/ InetAtonRaises(packet.giaddr)
    THEN [ok |-> FALSE]
    ELSE [ok |-> TRUE,
          data |-> [op |-> packet.op, xid |-> packet.xid, chaddr |-> packet.chaddr,
                    ciaddr |-> packet.ciaddr.value, yiaddr |-> packet.yiaddr.value,
                    siaddr |-> packet.siaddr.value, giaddr |-> packet.giaddr.value,
                    options |-> packet.options]]

-----------------------------------------------------------------------------
(* dhcp_packet.DHCPPacket byte by byte: build() and parse() on sequences of
   bytes.  A message is a record of the attributes of DHCPPacket; its
   options dict is the sequence of its items <<code, value>> in insertion
   order, with distinct codes. *)

\* DHCPOptions.END
END == 255

\* the length of the fixed header that parse() demands and unpacks
HeaderLen == 236

\* DHCPPacket.MAGIC_COOKIE
MAGIC_COOKIE == <<99, 130, 83, 99>>

\* b'\x00' * n, which is empty for n <= 0
Zeros(n) == [i \in 1..n |-> 0]

\* struct.pack('!I') and ('!H'): n in width bytes, most significant first
PackUInt(n, width) ==
    [i \in 1..width |-> (n \div (256 ^ (width - i))) % 256]

\* struct.unpack('!I') and ('!H')
RECURSIVE UnpackUInt(_)
UnpackUInt(bytes) ==
    IF bytes = <<>> THEN 0
    ELSE UnpackUInt(SubSeq(bytes, 1, Len(bytes) - 1)) * 256 + bytes[Len(bytes)]

\* socket.inet_aton: the four bytes of a dotted-quad string
inet_aton(ip) == PackUInt(ip, 4)

\* socket.inet_ntoa: the dotted-quad string of four bytes
inet_ntoa(bytes) == UnpackUInt(bytes)

\* the loop of build() over self.options.items(): code, length, value
RECURSIVE OptionBytes(_)
OptionBytes(items) ==
    IF items = <<>> THEN <<>>
    ELSE <<items[1][1], Len(items[1][2])>> \o items[1][2]
         \o OptionBytes(Tail(items))

\* DHCPPacket.build, the bytes
DHCPPacket_build(m) ==
    <<m.op, m.htype, m.hlen, m.hops>>
    \o PackUInt(m.xid, 4) \o PackUInt(m.secs, 2) \o PackUInt(m.flags, 2)
    \o inet_aton(m.ciaddr) \o inet_aton(m.yiaddr)
    \o inet_aton(m.siaddr) \o inet_aton(m.giaddr)
    \o m.chaddr \o Zeros(16 - Len(m.chaddr))
    \o m.sname \o Zeros(64 - Len(m.sname))
    \o m.file \o Zeros(128 - Len(m.file))
    \o MAGIC_COOKIE
    \o OptionBytes(m.options)
    \o <<END>>

\* the while loop of _parse_options from the i-th byte on (i counts from 1)
RECURSIVE ParseOptionsFrom(_, _, _)
ParseOptionsFrom(options_data, i, options) ==
    IF i > Len(options_data) THEN options
    ELSE IF options_data[i] = END THEN options
    ELSE IF options_data[i] = 0
    THEN ParseOptionsFrom(options_data, i + 1, options)
    ELSE IF i + 1 > Len(options_data) THEN options
    ELSE IF i + 1 + options_data[i + 1] > Len(options_data) THEN options
    ELSE ParseOptionsFrom(
             options_data, i + 2 + options_data[i + 1],
             DictSet(options, options_data[i],
                     SubSeq(options_data, i + 2, i + 1 + options_data[i + 1])))

\* DHCPPacket._parse_options
_parse_options(options_data) == ParseOptionsFrom(options_data, 1, EmptyDict)

\* (variant) parse keeps six bytes of chaddr whatever hlen says
Mutant_ParseSixByteChaddr(data) ==
    IF Len(data) < HeaderLen THEN [ok |-> FALSE]
    ELSE [ok |-> TRUE,
          op |-> data[1], htype |-> data[2], hlen |-> data[3], hops |-> data[4],
          xid |-> UnpackUInt(SubSeq(data, 5, 8)),
          secs |-> UnpackUInt(SubSeq(data, 9, 10)),
          flags |-> UnpackUInt(SubSeq(data, 11, 12)),
          ciaddr |-> inet_ntoa(SubSeq(data, 13, 16)),
          yiaddr |-> inet_ntoa(SubSeq(data, 17, 20)),
          siaddr |-> inet_ntoa(SubSeq(data, 21, 24)),
          giaddr |-> inet_ntoa(SubSeq(data, 25, 28)),
          chaddr |-> SubSeq(data, 29, 28 + 6),
          sname |-> SubSeq(data, 45, 108),
          file |-> SubSeq(data, 109, 236),
          options |->
              IF /\ Len(data) > HeaderLen
                 /\ Len(data) - HeaderLen >= 4
                 /\ SubSeq(data, 237, 240) = MAGIC_COOKIE
              THEN _parse_options(SubSeq(data, 241, Len(data)))
              ELSE EmptyDict]

\* (variant) parse reads the options behind the header without comparing
\* the four bytes in front of them with the magic cookie
Mutant_ParseWithoutCookieCheck(data) ==
    IF Len(data) < HeaderLen THEN [ok |-> FALSE]
    ELSE [ok |-> TRUE,
          op |-> data[1], htype |-> data[2], hlen |-> data[3], hops |-> data[4],
          xid |-> UnpackUInt(SubSeq(data, 5, 8)),
          secs |-> UnpackUInt(SubSeq(data, 9, 10)),
          flags |-> UnpackUInt(SubSeq(data, 11, 12)),
          ciaddr |-> inet_ntoa(SubSeq(data, 13, 16)),
          yiaddr |-> inet_ntoa(SubSeq(data, 17, 20)),
          siaddr |-> inet_ntoa(SubSeq(data, 21, 24)),
          giaddr |-> inet_ntoa(SubSeq(data, 25, 28)),
          chaddr |-> SubSeq(data, 29, 28 + (IF data[3] < 16 THEN data[3] ELSE 16)),
          sname |-> SubSeq(data, 45, 108),
          file |-> SubSeq(data, 109, 236),
          options |->
              IF /\ Len(data) > HeaderLen
                 /\ Len(data) - HeaderLen >= 4
              THEN _parse_options(SubSeq(data, 241, Len(data)))
              ELSE EmptyDict]

\* DHCPPacket.parse, from the bytes: the header fields lie at the offsets
\* of the format '!BBBB I HH 4s 4s 4s 4s 16s 64s 128s'
DHCPPacket_parse(data) ==
    IF Len(data) < HeaderLen THEN [ok |-> FALSE]
    ELSE [ok |-> TRUE,
          op |-> data[1], htype |-> data[2], hlen |-> data[3], hops |-> data[4],
          xid |-> UnpackUInt(SubSeq(data, 5, 8)),
          secs |-> UnpackUInt(SubSeq(data, 9, 10)),
          flags |-> UnpackUInt(SubSeq(data, 11, 12)),
          ciaddr |-> inet_ntoa(SubSeq(data, 13, 16)),
          yiaddr |-> inet_ntoa(SubSeq(data, 17, 20)),
          siaddr |-> inet_ntoa(SubSeq(data, 21, 24)),
          giaddr |-> inet_ntoa(SubSeq(data, 25, 28)),
          chaddr |-> SubSeq(data, 29, 28 + (IF data[3] < 16 THEN data[3] ELSE 16)),
          sname |-> SubSeq(data, 45, 108),
          file |-> SubSeq(data, 109, 236),
          options |->
              IF /\ Len(data) > HeaderLen
                 /\ Len(data) - HeaderLen >= 4
                 /\ SubSeq(data, 237, 240) = MAGIC_COOKIE
              THEN _parse_options(SubSeq(data, 241, Len(data)))
              ELSE EmptyDict]

\* a DHCPPacket whose attributes were assigned
MkMessage(op, xid, flags, ciaddr, yiaddr, chaddr, sname, file, options) ==
    [op |-> op, htype |-> 1, hlen |-> Len(chaddr), hops |-> 0, xid |-> xid,
     secs |-> 0, flags |-> flags, ciaddr |-> ciaddr, yiaddr |-> yiaddr,
     siaddr |-> 0, giaddr |-> 0, chaddr |-> chaddr, sname |-> sname,
     file |-> file, options |-> options]

\* hardware addresses of 0, 6 and 16 bytes, with zero bytes at either end
CodecChaddrs ==
    {<<>>, <<0, 17, 34, 51, 68, 0>>, [i \in 1..16 |-> IF i = 16 THEN 0 ELSE i]}

\* options dicts: empty; a message type; a message type and a requested
\* address; an empty value; the codes 1 and 254 with values that contain
\* the pad and the end byte; a value of 255 bytes
CodecOptions ==
    {<<>>,
     <<<<53, <<1>>>>>>,
     <<<<53, <<3>>>>, <<50, <<10, 0, 0, 11>>>>>>,
     <<<<55, <<>>>>, <<53, <<5>>>>>>,
     <<<<254, <<END, 0, 53>>>>, <<1, <<0, END>>>>>>,
     <<<<61, [i \in 1..255 |-> END]>>, <<53, <<2>>>>>>}

\* the messages built and parsed; integers and addresses below 2^31
CodecMessages ==
    {MkMessage(op, xid, flags, ciaddr, yiaddr, chaddr, sname, file, options) :
        op \in {1, BOOTREPLY},
        xid \in {0, 16909060, 2147483647},
        flags \in {0, 32768},
        ciaddr \in {0, 167772171},
        yiaddr \in {0, 184549120},
        chaddr \in CodecChaddrs,
        sname \in {<<>>, <<115, 0, 118>>},
        file \in {<<>>, [i \in 1..128 |-> 98]},
        options \in CodecOptions}

\* a message is built and the bytes are parsed
RoundTrip ==
    /\ last.op = "message"
    /\ last' = [op |-> "roundtrip", m |-> last.m,
                parsed |-> DHCPPacket_parse(DHCPPacket_build(last.m))]
    /\ UNCHANGED <<cfg, allocated, leases, disk, now>>

InitCodec ==
    /\ cfg = CfgSmall
    /\ allocated = [s \in 1..Len(cfg.subnets) |-> EmptyDict]
    /\ leases = EmptyDict
    /\ disk = EmptyDict
    /\ now = 0
    /\ last \in {[op |-> "message", m |-> m] : m \in CodecMessages}

NextCodec == RoundTrip

SpecCodec == InitCodec /\ [][NextCodec]_vars

-----------------------------------------------------------------------------
(* dhcp_server.DHCPServer *)

\* the options build_offer and build_ack add, for message type t
ReplyOptions(c, t) ==
    [message_type |-> t, server_id |-> c.server_ip, lease_time |-> c.lease_time,
     subnet_mask |-> c.subnet_mask, router |-> c.gateway,
     dns_server |-> c.dns_servers]

\* DHCPServer.build_offer
build_offer(c, request_packet, offered_ip) ==
    [op |-> BOOTREPLY, xid |-> request_packet.xid, chaddr |-> request_packet.chaddr,
     ciaddr |-> PyStr(ZeroIp), yiaddr |-> offered_ip,
     siaddr |-> PyStr(c.server_ip), giaddr |-> PyStr(ZeroIp),
     options |-> ReplyOptions(c, OFFER)]

\* DHCPServer.build_ack
build_ack(c, request_packet, assigned_ip) ==
    [op |-> BOOTREPLY, xid |-> request_packet.xid, chaddr |-> request_packet.chaddr,
     ciaddr |-> PyStr(ZeroIp), yiaddr |-> assigned_ip,
     siaddr |-> PyStr(c.server_ip), giaddr |-> PyStr(ZeroIp),
     options |-> ReplyOptions(c, ACK)]

\* DHCPServer.send_packet: the datagrams broadcast, and whether build raised
send_packet(packet) ==
    LET b == build(packet)
    IN  IF b.ok THEN [sent |-> <<b.data>>, raised |-> FALSE]
        ELSE [sent |-> <<>>, raised |-> TRUE]

\* what handling one datagram did: the managers afterwards, the datagrams
\* sent, whether an exception reached listen(), and what the handler saw
Outcome(alloc, ls, file, sent, raised, seen) ==
    [allocated |-> alloc, leases |-> ls, disk |-> file, sent |-> sent,
     raised |-> raised, seen |-> seen]

\* what a handler saw: the message type, the client's MAC, the requested
\* address it worked with, the address allocate_ip or get_ip gave it
Seen(type, mac, req, ip) == [type |-> type, mac |-> mac, req |-> req, ip |-> ip]

\* DHCPServer.handle_discover
handle_discover(c, alloc, ls, file, packet) ==
    LET mac == get_client_mac(packet)
        requested_ip == get_requested_ip(packet)
        r == allocate_ip(c, alloc, mac, requested_ip.value, None)
        allocated_ip == PyTuple(<<r.ip, r.subnet>>)
        s == send_packet(build_offer(c, packet, allocated_ip))
    IN  IF requested_ip.raised
        THEN Outcome(alloc, ls, file, <<>>, TRUE,
                     Seen(DISCOVER, mac, None, None))
        ELSE IF ~PyTruthy(allocated_ip)
        THEN Outcome(r.allocated, ls, file, <<>>, FALSE,
                     Seen(DISCOVER, mac, requested_ip.value, r.ip))
        ELSE Outcome(r.allocated, ls, file, s.sent, s.raised,
                     Seen(DISCOVER, mac, requested_ip.value, r.ip))

\* DHCPServer.handle_request_packet
handle_request_packet(c, alloc, ls, file, packet, t, io) ==
    LET mac == get_client_mac(packet)
        option == get_requested_ip(packet)
        requested_ip == IF Truthy(option.value) THEN option.value ELSE packet.ciaddr
        allocated_ip == get_ip(c, alloc, mac)
        l == create_lease(ls, file, mac, allocated_ip, c.lease_time, t, io)
        s == send_packet(build_ack(c, packet, PyStr(allocated_ip)))
    IN  IF option.raised
        THEN Outcome(alloc, ls, file, <<>>, TRUE, Seen(REQUEST, mac, None, None))
        ELSE IF Truthy(allocated_ip) /\ allocated_ip = requested_ip
        THEN Outcome(alloc, l.leases, l.disk, s.sent, s.raised,
                     Seen(REQUEST, mac, requested_ip, allocated_ip))
        ELSE Outcome(alloc, ls, file, <<>>, FALSE,
                     Seen(REQUEST, mac, requested_ip, allocated_ip))

\* DHCPServer.handle_release
handle_release(c, alloc, ls, file, packet, io) ==
    LET mac == get_client_mac(packet)
        l == release_lease(ls, file, mac, io)
        r == release_ip(c, alloc, mac)
    IN  Outcome(r.allocated, l.leases, l.disk, <<>>, FALSE,
                Seen(RELEASE, mac, None, None))

\* the if/elif chain with DECLINE sent to handle_release
Mutant_DeclineReleases(msg_type) ==
    IF msg_type = DISCOVER THEN "handle_discover"
    ELSE IF msg_type = REQUEST THEN "handle_request_packet"
    ELSE IF msg_type \in {RELEASE, DECLINE} THEN "handle_release"
    ELSE "unhandled"

\* the if/elif chain of handle_request: the handler a message type goes to
Route(msg_type) ==
    IF msg_type = DISCOVER THEN "handle_discover"
    ELSE IF msg_type = REQUEST THEN "handle_request_packet"
    ELSE IF msg_type = RELEASE THEN "handle_release"
    ELSE "unhandled"

\* DHCPServer.handle_request as called from listen(), whose except clause
\* logs whatever the handler raises
handle_request(c, alloc, ls, file, data, t, io) ==
    LET packet == parse(data)
        msg_type == get_message_type(packet)
        route == Route(msg_type.value)
        nothing(raised, type) ==
            Outcome(alloc, ls, file, <<>>, raised, Seen(type, None, None, None))
    IN  IF ~packet.ok THEN nothing(FALSE, None)
        ELSE IF msg_type.raised THEN nothing(TRUE, None)
        ELSE IF msg_type.value = None THEN nothing(FALSE, None)
        ELSE IF StrRaises(msg_type.value) THEN nothing(TRUE, msg_type.value)
        ELSE IF route = "handle_discover"
        THEN handle_discover(c, alloc, ls, file, packet)
        ELSE IF route = "handle_request_packet"
        THEN handle_request_packet(c, alloc, ls, file, packet, t, io)
        ELSE IF route = "handle_release"
        THEN handle_release(c, alloc, ls, file, packet, io)
        ELSE nothing(~IsMessageType(msg_type.value), msg_type.value)

-----------------------------------------------------------------------------
(* The server: listen() takes one datagram at a time *)

\* the configuration the server runs with: two subnets, a reservation in
\* each, one of them inside its pool
ServerConfigs == {CfgTwo}

\* the message type handle_request reads from a datagram, None when parse
\* or get_message_type gives it none
MessageType(data) ==
    LET packet == parse(data)
    IN  IF ~packet.ok THEN None
        ELSE IF get_message_type(packet).raised THEN None
        ELSE get_message_type(packet).value

\* one iteration of the loop of listen(): recvfrom, then handle_request.
\* last keeps the message type read from the datagram and the datagrams sent.
Listen(data, io) ==
    \E o \in {handle_request(cfg, allocated, leases, disk, data, now, io)} :
        /\ allocated' = o.allocated
        /\ leases' = o.leases
        /\ disk' = o.disk
        /\ last' = [op |-> "datagram", type |-> MessageType(data), sent |-> o.sent]
        /\ UNCHANGED <<cfg, now>>

\* time passes between datagrams
Tick ==
    /\ now < MaxTime
    /\ now' = now + 1
    /\ last' = [op |-> "tick"]
    /\ UNCHANGED <<cfg, allocated, leases, disk>>

\* DHCPServer.__init__ and start() with no lease file yet: the managers are
\* constructed (IPManager gets config['ip_pool_start'] as its subnet
\* descriptors and config['ip_pool_end'] as its global reservations), no
\* lease is loaded and the clean-up at start-up finds nothing to remove
Init == InitState(ServerConfigs)

\* the server with a lease file every write of which succeeds
Next ==
    \/ \E data \in Datagrams : Listen(data, "ok")
    \/ Tick

Spec == Init /\ [][Next]_vars

-----------------------------------------------------------------------------
(* The server with a global reservation, and with clean-ups of the lease
   store between datagrams *)

\* the configuration: the globally reserved address lies in the pool
HoldConfigs == {CfgGlobal}

\* a call of lease_manager.cleanup_expired_leases()
CleanupExpired ==
    \E r \in {cleanup_expired_leases(leases, disk, now, "ok")} :
        /\ leases' = r.leases
        /\ disk' = r.disk
        /\ last' = [op |-> "cleanup_expired_leases", ret |-> r.ret]
        /\ UNCHANGED <<cfg, allocated, now>>

InitHold == InitState(HoldConfigs)

NextHold ==
    \/ \E data \in Datagrams : Listen(data, "ok")
    \/ Tick
    \/ CleanupExpired

SpecHold == InitHold /\ [][NextHold]_vars

-----------------------------------------------------------------------------
(* The server with a lease file whose writes can fail *)

\* every write of the lease file succeeds, fails at open(), or fails after
\* open() truncated the file
NextFaulty ==
    \/ \E data \in Datagrams, io \in IoOutcomes : Listen(data, io)
    \/ Tick

\* the server with one subnet
InitFaulty == InitState({CfgSmall})

SpecFaulty == InitFaulty /\ [][NextFaulty]_vars

-----------------------------------------------------------------------------
(* The server on datagrams given as bytes *)

\* the datagram of client c with message type t and, unless requested is
\* None, option 50: hardware address 00:00:00:00:00:c, transaction id 7
ClientBytes(c, t, requested) ==
    DHCPPacket_build(
        MkMessage(1, 7, 0, ZeroIp, ZeroIp, <<0, 0, 0, 0, 0, c>>, <<>>, <<>>,
                  <<<<53, <<t>>>>>>
                  \o (IF requested = None THEN <<>>
                      ELSE <<<<50, inet_aton(requested)>>>>)))

\* well-formed datagrams: DISCOVER without and with a requested address,
\* REQUEST for a pool address and for the reserved address, RELEASE
GoodBytes ==
    {ClientBytes(c, t[1], t[2]) :
        c \in 1..MaxClient,
        t \in {<<DISCOVER, None>>, <<DISCOVER, 12>>, <<REQUEST, 11>>,
                <<REQUEST, 12>>, <<REQUEST, 15>>, <<RELEASE, None>>}}

\* the first 236 bytes of a datagram
HeaderBytes(bytes) == SubSeq(bytes, 1, HeaderLen)

\* bytes with the four bytes behind the header replaced by cookie
WithCookie(bytes, cookie) ==
    HeaderBytes(bytes) \o cookie \o SubSeq(bytes, HeaderLen + 5, Len(bytes))

\* the datagrams received: the well-formed ones; each of them with a cookie
\* whose last or first byte is wrong, cut off behind the header, cut off
\* in the middle of the cookie, and with the options directly behind the
\* header
CookieInputs ==
    GoodBytes
    \cup {WithCookie(b, <<99, 130, 83, 0>>) : b \in GoodBytes}
    \cup {WithCookie(b, <<0, 130, 83, 99>>) : b \in GoodBytes}
    \cup {HeaderBytes(b) : b \in GoodBytes}
    \cup {SubSeq(b, 1, HeaderLen + 2) : b \in GoodBytes}
    \cup {HeaderBytes(b) \o SubSeq(b, HeaderLen + 5, Len(b)) : b \in GoodBytes}

\* the datagram as handle_request gets to see it through DHCPPacket.parse:
\* the client in the last byte of chaddr, and the options 53 and 50 that
\* parse found (the cookie has been dealt with by parse)
AsDatagram(bytes) ==
    LET p == DHCPPacket_parse(bytes)
        opt50 == p.options[50]
    IN  IF ~p.ok THEN MkDatagram(FALSE, FALSE, 1, ZeroIp, Absent, Absent)
        ELSE MkDatagram(
                 TRUE, TRUE, p.chaddr[Len(p.chaddr)], p.ciaddr,
                 IF 53 \in DOMAIN p.options THEN Opt53(p.options[53]) ELSE Absent,
                 IF 50 \in DOMAIN p.options
                 THEN Opt50(Len(opt50),
                            IF Len(opt50) = 4 THEN inet_ntoa(opt50) ELSE None)
                 ELSE Absent)

\* what parse makes of each datagram received
ParsedInputs == [bytes \in CookieInputs |-> AsDatagram(bytes)]

\* one iteration of the loop of listen() on the bytes received
ListenBytes(bytes) == Listen(ParsedInputs[bytes], "ok")

InitCookie == InitState({CfgSmall})

NextCookie ==
    \/ \E bytes \in CookieInputs : ListenBytes(bytes)
    \/ Tick

SpecCookie == InitCookie /\ [][NextCookie]_vars

-----------------------------------------------------------------------------
(* The server stopped and started again *)

\* the process ends and a new one starts: DHCPServer.__init__ builds the
\* IPManager from the configuration, with empty allocation tables, and the
\* LeaseManager, which loads the lease file; start() removes the expired
\* leases and listens
Restart ==
    \E r \in {cleanup_expired_leases(load_leases(disk), disk, now, "ok")} :
        /\ allocated' = [s \in 1..Len(cfg.subnets) |-> EmptyDict]
        /\ leases' = r.leases
        /\ disk' = r.disk
        /\ last' = [op |-> "restart"]
        /\ UNCHANGED <<cfg, now>>

InitRestart == InitState({CfgRestart})

NextRestart ==
    \/ \E data \in Datagrams : Listen(data, "ok")
    \/ Tick
    \/ Restart

SpecRestart == InitRestart /\ [][NextRestart]_vars

\* the same server never restarted
SpecNoRestart == InitRestart /\ [][Next]_vars

-----------------------------------------------------------------------------
(* Properties of one Subnet, checked under SpecSubnet *)

LastSubnet == cfg.subnets[last.sub]

\* every pool address is allocated to some MAC or reserved
Exhausted(subnet, alloc) ==
    \A a \in subnet.pool : a \in Values(alloc) \/ a \in Values(subnet.reservations)

\* the pool addresses neither reserved nor allocated
FreeIps(subnet, alloc) ==
    {a \in subnet.pool : a \notin Values(alloc) /\ a \notin Values(subnet.reservations)}

\* a MAC with no reservation and no allocation entry
NewMac(subnet, alloc, mac) ==
    mac \notin DOMAIN subnet.reservations /\ mac \notin DOMAIN alloc

\* C1: allocate_for_mac is idempotent.  Whenever a call of allocate_for_mac
\* for a MAC directly follows a call of allocate_for_mac for the same MAC on
\* the same subnet (any two requested addresses, any two spellings of the
\* MAC, no release in between), the second call returns what the first
\* returned and leaves the allocation table as it was.
C1_AllocateIdempotent ==
    [][ ( /\ last.op = "allocate_for_mac"
          /\ last'.op = "allocate_for_mac"
          /\ last'.sub = last.sub
          /\ last'.mac = last.mac )
        => ( /\ last'.ret = last.ret
             /\ allocated' = allocated ) ]_vars

\* a repeated call has happened: the MAC already held the address returned,
\* a different address was requested, and the table is as before the call
C1_Witness ==
    /\ last.op = "allocate_for_mac"
    /\ last.mac \in DOMAIN last.pre
    /\ last.mac \notin DOMAIN LastSubnet.reservations
    /\ last.req \in FreeIps(LastSubnet, last.pre)
    /\ last.ret = last.pre[last.mac]
    /\ allocated[last.sub] = last.pre

\* C2: reservation precedence.  A call of allocate_for_mac for a MAC that
\* the subnet reserves to R returns R, whatever address was requested and
\* whatever the pool's occupancy, and afterwards R is the MAC's entry in the
\* allocation table.
C2_ReservationPrecedence ==
    ( /\ last.op = "allocate_for_mac"
      /\ last.mac \in DOMAIN LastSubnet.reservations )
    => ( /\ last.ret = LastSubnet.reservations[last.mac]
         /\ last.mac \in DOMAIN allocated[last.sub]
         /\ allocated[last.sub][last.mac] = LastSubnet.reservations[last.mac] )

\* a reserved MAC whose reserved address is outside the pool asked for a
\* pool address that another MAC holds, in an exhausted pool
C2_Witness ==
    /\ last.op = "allocate_for_mac"
    /\ last.mac \in DOMAIN LastSubnet.reservations
    /\ LastSubnet.reservations[last.mac] \notin LastSubnet.pool
    /\ last.req \in Values(last.pre)
    /\ last.req # LastSubnet.reservations[last.mac]
    /\ Exhausted(LastSubnet, last.pre)
    /\ last.ret = LastSubnet.reservations[last.mac]

\* C3: exhaustion.  When every pool address is allocated or reserved, a
\* call of allocate_for_mac for a MAC with no allocation and no reservation
\* returns None, whatever address it requests, and leaves the allocation
\* table unchanged.
C3_Exhaustion ==
    ( /\ last.op = "allocate_for_mac"
      /\ Exhausted(LastSubnet, last.pre)
      /\ NewMac(LastSubnet, last.pre, last.mac) )
    => ( /\ last.ret = None
         /\ allocated[last.sub] = last.pre )

\* a new MAC asked an exhausted subnet, with reservations, for a pool address
C3_Witness ==
    /\ last.op = "allocate_for_mac"
    /\ Exhausted(LastSubnet, last.pre)
    /\ NewMac(LastSubnet, last.pre, last.mac)
    /\ LastSubnet.reservations # EmptyDict
    /\ last.req \in LastSubnet.pool
    /\ last.ret = None

\* C4: reuse.  After release(A) has removed the dynamically allocated
\* address ip of a MAC A without reservation, a directly following
\* allocate_for_mac(B, ip) for another MAC B with no allocation and no
\* reservation returns ip; and if the subnet was exhausted before the
\* release, a directly following allocate_for_mac(B) without a requested
\* address returns ip too.
C4_Reuse ==
    [][ ( /\ last.op = "release"
          /\ last.ret = TRUE
          /\ last.mac \notin DOMAIN LastSubnet.reservations
          /\ last'.op = "allocate_for_mac"
          /\ last'.sub = last.sub
          /\ last'.mac # last.mac
          /\ NewMac(LastSubnet, allocated[last.sub], last'.mac) )
        => ( /\ (last'.req = last.pre[last.mac]) => (last'.ret = last.pre[last.mac])
             /\ (last'.req = None /\ Exhausted(LastSubnet, last.pre))
                   => (last'.ret = last.pre[last.mac]) ) ]_vars

\* a release has just freed the dynamic address of a MAC in a subnet that
\* was exhausted, and a MAC with no allocation and no reservation exists
C4_Witness ==
    /\ last.op = "release"
    /\ last.ret = TRUE
    /\ last.mac \notin DOMAIN LastSubnet.reservations
    /\ Exhausted(LastSubnet, last.pre)
    /\ last.pre[last.mac] \in FreeIps(LastSubnet, allocated[last.sub])
    /\ \E id \in 1..MaxMac :
          Mac(id) # last.mac /\ NewMac(LastSubnet, allocated[last.sub], Mac(id))

\* C5: lowest-free selection.  When allocate_for_mac is called for a MAC
\* with no reservation and no allocation and the requested address is absent
\* or not grantable, the result is the numerically lowest pool address that
\* is neither reserved nor allocated, or None when there is none.  In the
\* 3-address pool 11..13 without reservations, a new MAC that requests no
\* address while the j lowest addresses are taken gets address 11 + j, and
\* None when j = 3.
C5_LowestFree ==
    ( /\ last.op = "allocate_for_mac"
      /\ NewMac(LastSubnet, last.pre, last.mac)
      /\ last.req \notin FreeIps(LastSubnet, last.pre) )
    => LET free == FreeIps(LastSubnet, last.pre)
           j == Cardinality(DOMAIN last.pre)
       IN  /\ free = {} => last.ret = None
           /\ free # {} => (last.ret \in free /\ \A a \in free : last.ret <= a)
           /\ (cfg = CfgPlain /\ last.req = None /\ j <= 3
                  /\ Values(last.pre) = {11 + k : k \in 0..(j - 1)})
                 => last.ret = (IF j < 3 THEN 11 + j ELSE None)

\* the fourth new MAC of the 3-address pool got None, the first three
\* having been given 11, 12 and 13
C5_Witness ==
    /\ cfg = CfgPlain
    /\ last.op = "allocate_for_mac"
    /\ last.req = None
    /\ NewMac(LastSubnet, last.pre, last.mac)
    /\ Values(last.pre) = {11, 12, 13}
    /\ last.ret = None

\* C14: reserved addresses are never handed out dynamically.  In every
\* state reached by allocate_for_mac and release calls, no MAC other than M
\* holds an allocation entry for an address the subnet reserves to M.
C14_ReservedNeverDynamic ==
    \A s \in Subnets :
        \A M \in DOMAIN cfg.subnets[s].reservations :
            \A mac \in (DOMAIN allocated[s]) \ {M} :
                allocated[s][mac] # cfg.subnets[s].reservations[M]

\* another MAC asked for an address that lies in the pool, is reserved to a
\* MAC holding no entry at the time, and was given a different address
C14_Witness ==
    /\ last.op = "allocate_for_mac"
    /\ last.mac \notin DOMAIN LastSubnet.reservations
    /\ last.mac \notin DOMAIN last.pre
    /\ last.req \in LastSubnet.pool
    /\ last.req \in Values(LastSubnet.reservations)
    /\ last.req \notin Values(last.pre)
    /\ last.ret \in LastSubnet.pool
    /\ last.ret # last.req

\* the two spellings of a normalised MAC
Spellings(mac) == {<<mac[1], f>> : f \in MacForms}

\* C15: release never frees a reservation.  For a MAC M that a subnet
\* reserves to R: after every call (every release included)
\* get_ip_for_mac(M) returns R and no other MAC holds R; an allocate_for_mac
\* for M that directly follows a release of M returns R; and every release
\* removes just the entry of its MAC from the allocation table and returns
\* true iff there was one.
C15_ReleaseKeepsReservation ==
    [][ /\ \A s \in Subnets :
              \A M \in DOMAIN cfg.subnets[s].reservations :
                  LET R == cfg.subnets[s].reservations[M]
                  IN  /\ \A raw \in Spellings(M) :
                            get_ip_for_mac(cfg.subnets[s], allocated'[s], raw) = R
                      /\ \A o \in (DOMAIN allocated'[s]) \ {M} :
                            allocated'[s][o] # R
        /\ last'.op = "release"
              => /\ last'.ret = (last'.mac \in DOMAIN allocated[last'.sub])
                 /\ DOMAIN allocated'[last'.sub]
                       = (DOMAIN allocated[last'.sub]) \ {last'.mac}
                 /\ \A o \in DOMAIN allocated'[last'.sub] :
                       allocated'[last'.sub][o] = allocated[last'.sub][o]
                 /\ \A s \in Subnets \ {last'.sub} : allocated'[s] = allocated[s]
        /\ ( /\ last.op = "release"
             /\ last'.op = "allocate_for_mac"
             /\ last'.sub = last.sub
             /\ last'.mac = last.mac
             /\ last.mac \in DOMAIN cfg.subnets[last.sub].reservations )
              => last'.ret = cfg.subnets[last.sub].reservations[last.mac] ]_vars

\* the entry of a reserved MAC was released: release returned true, the
\* table no longer has the entry, get_ip_for_mac still gives the reservation
C15_Witness ==
    /\ last.op = "release"
    /\ last.ret = TRUE
    /\ last.mac \in DOMAIN LastSubnet.reservations
    /\ last.mac \in DOMAIN last.pre
    /\ last.mac \notin DOMAIN allocated[last.sub]
    /\ get_ip_for_mac(LastSubnet, allocated[last.sub], last.mac)
          = LastSubnet.reservations[last.mac]

\* the requested address can be granted: it is in the pool, reserved to
\* nobody and allocated to nobody
Grantable(subnet, alloc, x) ==
    /\ x \in subnet.pool
    /\ x \notin Values(subnet.reservations)
    /\ x \notin Values(alloc)

\* C16: the requested-address rule.  A call allocate_for_mac(mac, X) for a
\* MAC with no reservation and no allocation entry returns X, and records
\* it, exactly when X is in the pool, reserved to no MAC and allocated to
\* no MAC; otherwise it returns the lowest free pool address, and None only
\* if no pool address is free.
C16_RequestedAddress ==
    ( /\ last.op = "allocate_for_mac"
      /\ last.req # None
      /\ NewMac(LastSubnet, last.pre, last.mac) )
    => LET free == FreeIps(LastSubnet, last.pre)
       IN  /\ (last.ret = last.req) <=> Grantable(LastSubnet, last.pre, last.req)
           /\ (last.ret = None) <=> (free = {})
           /\ ~Grantable(LastSubnet, last.pre, last.req) /\ free # {}
                 => /\ last.ret \in free
                    /\ \A a \in free : last.ret <= a
           /\ IF last.ret = None THEN allocated[last.sub] = last.pre
              ELSE allocated[last.sub] = DictSet(last.pre, last.mac, last.ret)

\* a new MAC asked for a pool address another MAC holds and was given the
\* lowest free address, which is not the lowest of the pool
C16_Witness ==
    /\ last.op = "allocate_for_mac"
    /\ NewMac(LastSubnet, last.pre, last.mac)
    /\ last.req \in Values(last.pre)
    /\ last.req \in LastSubnet.pool
    /\ last.ret \in LastSubnet.pool
    /\ \E a \in LastSubnet.pool : a < last.ret

\* C27: allocation uniqueness within a Subnet.  With a reservation table
\* that maps distinct MACs to distinct addresses, in every state reached
\* by allocate_for_mac and release calls no address is in a subnet's
\* allocation table for two distinct MACs, and every entry (mac, ip) has
\* ip in the pool or equal to the address reserved for mac.
C27_UniqueInSubnet ==
    \A s \in Subnets :
        LET subnet == cfg.subnets[s]
            alloc == allocated[s]
        IN  /\ \A m1, m2 \in DOMAIN alloc : alloc[m1] = alloc[m2] => m1 = m2
            /\ \A m \in DOMAIN alloc :
                  \/ alloc[m] \in subnet.pool
                  \/ /\ m \in DOMAIN subnet.reservations
                     /\ alloc[m] = subnet.reservations[m]

\* the distinct reservations the claim presupposes
DistinctReservations(subnet) ==
    \A m1, m2 \in DOMAIN subnet.reservations :
        subnet.reservations[m1] = subnet.reservations[m2] => m1 = m2

\* an allocate_for_mac call has filled the pool of a subnet that also holds
\* the entry of a MAC reserved to an address outside the pool, while
\* another address of the pool is reserved
C27_Witness ==
    /\ last.op = "allocate_for_mac"
    /\ DistinctReservations(cfg.subnets[last.sub])
    /\ LET subnet == cfg.subnets[last.sub]
           alloc == allocated[last.sub]
       IN  /\ \E m \in DOMAIN alloc :
                 /\ m \in DOMAIN subnet.reservations
                 /\ alloc[m] \notin subnet.pool
           /\ \E m \in DOMAIN alloc : m \notin DOMAIN subnet.reservations
           /\ FreeIps(subnet, alloc) = {}
           /\ (Values(subnet.reservations) \cap subnet.pool) \ Values(alloc) # {}

-----------------------------------------------------------------------------
(* Properties of the LeaseManager, checked under SpecLease *)

\* C11: lease validity over time.  create_lease(mac, ip, d) at time T
\* leaves exactly one record for mac, started at T and lasting d (the
\* store's default if d is left out), with expires_at = T + d; the record
\* of a MAC stays as it is until a create_lease for that MAC overwrites it
\* or release_lease or cleanup_expired_leases removes it; and is_lease_valid
\* (mac) at time t is true iff mac has a record and t < T + d for the T and
\* d of that record, so it is false for a MAC with no lease.
C11_LeaseValidity ==
    [][ /\ last'.op = "create_lease"
              => LET d == IF last'.lease_time = None THEN cfg.lease_time
                          ELSE last'.lease_time
                 IN  /\ DOMAIN leases' = (DOMAIN leases) \cup {last'.mac}
                     /\ leases'[last'.mac].ip_address = last'.ip
                     /\ leases'[last'.mac].start_time = now
                     /\ leases'[last'.mac].lease_time = d
                     /\ leases'[last'.mac].expires_at = now + d
        /\ \A m \in DOMAIN leases :
              \/ last'.op = "create_lease" /\ last'.mac = m
              \/ /\ m \notin DOMAIN leases'
                 /\ last'.op \in {"release_lease", "cleanup_expired_leases"}
              \/ /\ m \in DOMAIN leases'
                 /\ leases'[m] = leases[m]
        /\ last'.op = "is_lease_valid"
              => /\ leases' = leases
                 /\ last'.ret =
                       ( /\ last'.mac \in DOMAIN leases
                         /\ now < leases[last'.mac].start_time
                                     + leases[last'.mac].lease_time ) ]_vars

\* is_lease_valid was asked at the very instant a lease of positive duration
\* expires, and answered false
C11_Witness ==
    /\ last.op = "is_lease_valid"
    /\ last.ret = FALSE
    /\ last.mac \in DOMAIN leases
    /\ leases[last.mac].lease_time > 0
    /\ now = leases[last.mac].start_time + leases[last.mac].lease_time

\* the leases of ls that have expired at time t
ExpiredAt(ls, t) == {m \in DOMAIN ls : ls[m].expires_at <= t}

\* C12: cleanup_expired_leases removes exactly the leases whose expires_at
\* <= now, leaves every other lease untouched and returns the number
\* removed, so that no lease it counted is in the store afterwards; a
\* cleanup_expired_leases that directly follows another returns 0.
C12_CleanupExpired ==
    [][ last'.op = "cleanup_expired_leases"
        => /\ DOMAIN leases' = (DOMAIN leases) \ ExpiredAt(leases, now)
           /\ \A m \in DOMAIN leases' : leases'[m] = leases[m]
           /\ last'.ret = Cardinality(ExpiredAt(leases, now))
           /\ ExpiredAt(leases', now) = {}
           /\ last.op = "cleanup_expired_leases" => last'.ret = 0 ]_vars

\* a clean-up removed a lease that expired at this very instant and left an
\* unexpired one in the store
C12_Witness ==
    /\ last.op = "cleanup_expired_leases"
    /\ last.ret >= 1
    /\ leases # EmptyDict
    /\ now > 0
    /\ \A m \in DOMAIN leases : leases[m].expires_at > now

-----------------------------------------------------------------------------
(* Properties of the lease file, checked under SpecLeaseIo *)

\* the step is a call that mutates the lease store
Mutation == last'.op \in {"create_lease", "release_lease", "cleanup_expired_leases"}

\* the call of the step removed or wrote no record: a release_lease of an
\* absent MAC, or a clean-up that found nothing expired
NothingToDo ==
    \/ last'.op = "release_lease" /\ last'.mac \notin DOMAIN leases
    \/ last'.op = "cleanup_expired_leases" /\ ExpiredAt(leases, now) = {}

\* C23: the snapshot tracks memory.  After a create_lease, a release_lease
\* of a present MAC or a clean-up that removes a lease, if the write
\* succeeds the lease file equals the in-memory map in full; a
\* release_lease of an absent MAC and a clean-up that removes nothing
\* change neither the map nor the file (they do not write: a file left
\* behind by a failed write stays as it is).
C23_SnapshotTracksMemory ==
    [][ Mutation
        => IF NothingToDo
           THEN leases' = leases /\ disk' = disk
           ELSE last'.io = "ok" => disk' = leases' ]_vars

\* a lease was released with a successful write while another MAC's lease
\* stayed: file and map agree on the remaining lease
C23_Witness ==
    /\ last.op = "release_lease"
    /\ last.ret
    /\ last.io = "ok"
    /\ leases # EmptyDict
    /\ disk = leases

\* C24: a persistence failure is not fatal.  When the write fails, a
\* create_lease still leaves the record (ip, now, now + duration) for its
\* MAC, a release_lease still removes the record and returns whether it
\* was there, a clean-up still removes the expired leases and returns their
\* number, each leaving every other record as it was; get_lease and
\* is_lease_valid answer from the in-memory map whatever the file holds;
\* and a later write that succeeds makes the file equal to the map.
C24_FailureNotFatal ==
    [][ /\ (last'.op = "create_lease" /\ last'.io # "ok")
           => /\ DOMAIN leases' = DOMAIN leases \cup {last'.mac}
              /\ leases'[last'.mac].ip_address = last'.ip
              /\ leases'[last'.mac].start_time = now
              /\ leases'[last'.mac].expires_at =
                    now + (IF last'.lease_time = None THEN cfg.lease_time
                           ELSE last'.lease_time)
              /\ \A o \in DOMAIN leases \ {last'.mac} : leases'[o] = leases[o]
        /\ (last'.op = "release_lease" /\ last'.io # "ok")
           => /\ last'.ret = (last'.mac \in DOMAIN leases)
              /\ DOMAIN leases' = DOMAIN leases \ {last'.mac}
              /\ \A o \in DOMAIN leases' : leases'[o] = leases[o]
        /\ (last'.op = "cleanup_expired_leases" /\ last'.io # "ok")
           => /\ last'.ret = Cardinality(ExpiredAt(leases, now))
              /\ DOMAIN leases' = DOMAIN leases \ ExpiredAt(leases, now)
              /\ \A o \in DOMAIN leases' : leases'[o] = leases[o]
        /\ last'.op = "get_lease"
           => /\ last'.found = (last'.mac \in DOMAIN leases)
              /\ last'.found => last'.ip = leases[last'.mac].ip_address
        /\ last'.op = "is_lease_valid"
           => last'.ret = /\ last'.mac \in DOMAIN leases
                          /\ now < leases[last'.mac].expires_at
        /\ (Mutation /\ ~NothingToDo /\ last'.io = "ok" /\ disk # leases)
           => disk' = leases' ]_vars

\* a lease whose write failed is read back from memory: the file does not
\* have it
C24_Witness ==
    /\ last.op = "get_lease"
    /\ last.found
    /\ last.ip = leases[last.mac].ip_address
    /\ \/ disk = Truncated
       \/ last.mac \notin DOMAIN disk

-----------------------------------------------------------------------------
(* Properties of the codec, checked under SpecCodec *)

\* a fixed block without its trailing zero bytes
StripZeros(bytes) ==
    LET nonzero == {i \in DOMAIN bytes : bytes[i] # 0}
        n == IF nonzero = {} THEN 0
             ELSE CHOOSE i \in nonzero : \A j \in nonzero : j <= i
    IN  SubSeq(bytes, 1, n)

\* the options map of a message: code -> value
OptionsMap(items) ==
    [code \in {items[i][1] : i \in DOMAIN items} |->
        items[CHOOSE i \in DOMAIN items : items[i][1] = code][2]]

\* C13: codec round trip.  For every message m with a hardware address of
\* exactly hlen <= 16 bytes, a server name of at most 64 and a boot file of
\* at most 128 bytes, and options with codes in 1..254 and values of at
\* most 255 bytes, parse(build(m)) succeeds, has m's header fields (the
\* fixed blocks up to trailing zero bytes) and m's options map.
C13_RoundTrip ==
    last.op = "roundtrip"
    => LET m == last.m
           p == last.parsed
       IN  /\ p.ok
           /\ p.op = m.op /\ p.htype = m.htype
           /\ p.hlen = m.hlen /\ p.hops = m.hops
           /\ p.xid = m.xid /\ p.secs = m.secs /\ p.flags = m.flags
           /\ p.ciaddr = m.ciaddr /\ p.yiaddr = m.yiaddr
           /\ p.siaddr = m.siaddr /\ p.giaddr = m.giaddr
           /\ p.chaddr = m.chaddr
           /\ StripZeros(p.sname) = StripZeros(m.sname)
           /\ StripZeros(p.file) = StripZeros(m.file)
           /\ p.options = OptionsMap(m.options)

\* a message with a 16-byte hardware address ending in a zero byte, a
\* server name, a full boot file block and two options, one of them with
\* the end byte in its value, went through build and parse
C13_Witness ==
    /\ last.op = "roundtrip"
    /\ last.m.hlen = 16
    /\ last.m.chaddr[16] = 0
    /\ last.m.sname # <<>>
    /\ Len(last.m.file) = 128
    /\ Len(last.m.options) = 2
    /\ \E i \in 1..2 : \E k \in DOMAIN last.m.options[i][2] :
          last.m.options[i][2][k] = END
    /\ DOMAIN last.parsed.options = {last.m.options[1][1], last.m.options[2][1]}
    /\ Len(last.parsed.chaddr) = 16

-----------------------------------------------------------------------------
(* Properties of the IPManager, checked under SpecManager *)

\* the subnets that hold an allocation entry for mac
HoldingSubnets(mac) == {s \in Subnets : mac \in DOMAIN allocated[s]}

\* the first of a set of subnets in list order, NoSubnet if there is none
FirstOf(S) == IF S = {} THEN NoSubnet ELSE CHOOSE s \in S : \A t \in S : s <= t

\* the first subnet whose address block contains ip
FirstContaining(ip) == FirstOf({s \in Subnets : ip \in cfg.subnets[s].network})

\* the first subnet giaddr matches: it is the subnet's gateway or lies in
\* the subnet's address block
FirstRelayed(giaddr) ==
    IF giaddr = None THEN NoSubnet
    ELSE FirstOf({s \in Subnets : \/ cfg.subnets[s].gateway = giaddr
                                 \/ giaddr \in cfg.subnets[s].network})

\* C17: at most one subnet per MAC.  In every state reached by allocate_ip
\* and release_ip calls each MAC has an entry in at most one subnet's
\* allocation table, and after a release_ip(mac) that returned true no
\* subnet holds an entry for mac.
C17_OneSubnetPerMac ==
    /\ \A m \in 1..MaxMac : Cardinality(HoldingSubnets(Mac(m))) <= 1
    /\ (last.op = "release_ip" /\ last.ret = TRUE)
          => HoldingSubnets(last.mac) = {}

\* C18: the result shape of allocate_ip.  Whenever allocate_ip returns no
\* address it returns no subnet either: the result is (ip, subnet) with an
\* address, or (None, None).
C18_ResultShape ==
    (last.op = "allocate_ip" /\ last.ip = None) => last.subnet = NoSubnet

\* C19: the global reservation short-circuit.  For a MAC in the global
\* reservation table allocate_ip returns the globally reserved address,
\* whatever giaddr and requested_ip are, together with the first subnet
\* whose block contains that address (no subnet if none does), and changes
\* no allocation table.
C19_GlobalReservation ==
    [][ ( /\ last'.op = "allocate_ip"
          /\ last'.mac \in DOMAIN cfg.global_reservations )
        => /\ last'.ip = cfg.global_reservations[last'.mac]
           /\ last'.subnet = FirstContaining(cfg.global_reservations[last'.mac])
           /\ allocated' = allocated ]_vars

\* a globally reserved MAC called allocate_ip with a giaddr and a requested
\* address of another subnet than the one holding its reserved address,
\* while that other subnet still had its address free
C19_Witness ==
    /\ last.op = "allocate_ip"
    /\ last.mac \in DOMAIN cfg.global_reservations
    /\ last.giaddr # None
    /\ last.req # None
    /\ last.subnet # NoSubnet
    /\ FirstRelayed(last.giaddr) \notin {NoSubnet, last.subnet}
    /\ FirstContaining(last.req) = FirstRelayed(last.giaddr)
    /\ last.req \notin Values(allocated[FirstContaining(last.req)])
    /\ \E s \in Subnets : allocated[s] # EmptyDict

\* C20: subnet selection order.  For a MAC without a global reservation:
\* if giaddr matches a subnet (is its gateway or lies in its block) the
\* allocation is the one allocate_for_mac makes in the first such subnet,
\* also when requested_ip lies in another subnet; otherwise, if
\* requested_ip lies in a subnet's block, it is the one allocate_for_mac
\* makes in the first such subnet; no other subnet's table changes.
C20_SelectionOrder ==
    [][ ( /\ last'.op = "allocate_ip"
          /\ last'.mac \notin DOMAIN cfg.global_reservations )
        => LET g == FirstRelayed(last'.giaddr)
               q == IF last'.req = None THEN NoSubnet
                    ELSE FirstContaining(last'.req)
               t == IF g # NoSubnet THEN g ELSE q
           IN  t # NoSubnet
               => LET r == allocate_for_mac(cfg.subnets[t], allocated[t],
                                            last'.mac, last'.req)
                  IN  /\ last'.subnet = t
                      /\ last'.ip = r.ret
                      /\ allocated'[t] = r.allocated
                      /\ \A s \in Subnets \ {t} : allocated'[s] = allocated[s]
    ]_vars

\* a MAC relayed through the second subnet's gateway asked for an address
\* of the first subnet and was given the second subnet's address, while it
\* holds nothing in the first subnet
C20_Witness ==
    /\ last.op = "allocate_ip"
    /\ last.mac \notin DOMAIN cfg.global_reservations
    /\ last.giaddr # None
    /\ last.giaddr = cfg.subnets[2].gateway
    /\ last.giaddr \notin cfg.subnets[2].network
    /\ last.req \in cfg.subnets[1].pool
    /\ last.subnet = 2
    /\ last.ip \in cfg.subnets[2].pool
    /\ last.mac \in DOMAIN allocated[2]
    /\ last.mac \notin DOMAIN allocated[1]

\* the MAC strings, normalised
NormalMacs == {_normalize_mac(m) : m \in MacStrings(MaxMac)}

\* C28: address uniqueness across the IPManager.  In every state reached by
\* allocate_ip and release_ip calls, get_ip maps no two distinct MACs to the
\* same address, also when a globally reserved address lies inside a
\* subnet's pool.
C28_UniqueAcrossManager ==
    \A m1, m2 \in NormalMacs :
        ( /\ get_ip(cfg, allocated, m1) # None
          /\ get_ip(cfg, allocated, m1) = get_ip(cfg, allocated, m2) )
        => m1 = m2

\* C29: per-subnet reservations are honoured by the IPManager.  For a MAC
\* that the reservation table of any subnet, the first or a later one,
\* reserves the address R, allocate_ip returns R for every giaddr and
\* requested address, also when neither is given and an earlier subnet has
\* free addresses, and get_ip returns R.
C29_SubnetReservation ==
    [][ last'.op = "allocate_ip"
        => \A s \in Subnets :
              last'.mac \in DOMAIN cfg.subnets[s].reservations
              => /\ last'.ip = cfg.subnets[s].reservations[last'.mac]
                 /\ get_ip(cfg, allocated', last'.mac) =
                       cfg.subnets[s].reservations[last'.mac] ]_vars

-----------------------------------------------------------------------------
(* Properties of the dispatcher, checked under Spec *)

\* option 50 is absent or holds four bytes
WellFormed50(data) == data.opt50.present => data.opt50.len = 4

\* the client a datagram comes from
ClientMac(data) == Mac(data.chaddr)

\* the requested address of a DISCOVER: option 50, if present
DiscoverIp(data) == IF data.opt50.present THEN data.opt50.ip ELSE None

\* the requested address of a REQUEST: option 50, else the client address
RequestIp(data) == IF data.opt50.present THEN data.opt50.ip ELSE data.ciaddr

\* this step is the handling of datagram data
Handled(data) ==
    /\ last'.op = "datagram"
    /\ Listen(data, "ok")

\* the datagrams of each handled message type
Discovers == {data \in Datagrams : MessageType(data) = DISCOVER}
Requests == {data \in Datagrams : MessageType(data) = REQUEST}
Releases == {data \in Datagrams : MessageType(data) = RELEASE}

\* the datagrams sent are exactly one reply of message type t with
\* assigned address ip
OneReply(sent, t, ip) ==
    /\ Len(sent) = 1
    /\ sent[1].options.message_type = t
    /\ sent[1].yiaddr = ip

\* C6: DISCOVER handling.  Handling a DISCOVER datagram sends exactly one
\* OFFER whose assigned address is the address allocate_ip returns for the
\* client MAC and requested address, and sends nothing when allocate_ip
\* returns no address.
C6_DiscoverOffer ==
    [][ \A data \in Discovers :
          ( /\ last'.op = "datagram"
            /\ last'.type = DISCOVER
            /\ WellFormed50(data)
            /\ Handled(data) )
          => LET r == allocate_ip(cfg, allocated, ClientMac(data),
                                  DiscoverIp(data), None)
             IN  IF r.ip # None THEN OneReply(last'.sent, OFFER, r.ip)
                 ELSE last'.sent = <<>> ]_vars

\* C7: REQUEST handling.  Handling a REQUEST whose requested address (option
\* 50, else ciaddr) equals the address get_ip tracks for the client MAC
\* sends one ACK for that address and leaves a lease for the MAC with that
\* address and expires_at = now + lease_time; handling a REQUEST whose
\* requested address differs, or whose MAC has no tracked address, sends
\* nothing and leaves the leases and the lease file unchanged.
C7_RequestAck ==
    [][ \A data \in Requests :
          ( /\ last'.op = "datagram"
            /\ last'.type = REQUEST
            /\ WellFormed50(data)
            /\ Handled(data) )
          => LET mac == ClientMac(data)
                 tracked == get_ip(cfg, allocated, mac)
             IN  IF tracked # None /\ RequestIp(data) = tracked
                 THEN /\ OneReply(last'.sent, ACK, tracked)
                      /\ last'.sent[1].chaddr = data.chaddr
                      /\ mac \in DOMAIN leases'
                      /\ leases'[mac].ip_address = tracked
                      /\ leases'[mac].expires_at = now + cfg.lease_time
                 ELSE /\ last'.sent = <<>>
                      /\ leases' = leases
                      /\ disk' = disk ]_vars

\* a REQUEST was acknowledged after time had passed, and the client's lease
\* runs lease_time from now
C7_Witness ==
    /\ last.op = "datagram"
    /\ last.type = REQUEST
    /\ now > 0
    /\ Len(last.sent) = 1
    /\ last.sent[1].options.message_type = ACK
    /\ \E mac \in DOMAIN leases :
          /\ mac = Mac(last.sent[1].chaddr)
          /\ leases[mac].ip_address = last.sent[1].yiaddr
          /\ leases[mac].expires_at = now + cfg.lease_time

\* C8: RELEASE handling.  After a RELEASE from MAC m is handled there is no
\* lease for m, no subnet has an allocation entry for m, nothing was sent,
\* and the leases and allocations of every other MAC are as before.
C8_Release ==
    [][ \A data \in Releases :
          ( /\ last'.op = "datagram"
            /\ last'.type = RELEASE
            /\ Handled(data) )
          => LET m == ClientMac(data)
             IN  /\ m \notin DOMAIN leases'
                 /\ \A s \in Subnets : m \notin DOMAIN allocated'[s]
                 /\ last'.sent = <<>>
                 /\ \A o \in (DOMAIN leases) \ {m} :
                       o \in DOMAIN leases' /\ leases'[o] = leases[o]
                 /\ DOMAIN leases' \subseteq DOMAIN leases
                 /\ \A s \in Subnets :
                       /\ \A o \in (DOMAIN allocated[s]) \ {m} :
                             /\ o \in DOMAIN allocated'[s]
                             /\ allocated'[s][o] = allocated[s][o]
                       /\ DOMAIN allocated'[s] \subseteq DOMAIN allocated[s] ]_vars

\* C9: every datagram is answered by at most one datagram, an OFFER or an
\* ACK; a datagram whose message type is not DISCOVER, REQUEST or RELEASE
\* (another code, an unknown code, or no message type) is answered by none
\* and leaves the allocation tables, the leases and the lease file as they
\* were.
C9_AtMostOneReply ==
    [][ last'.op = "datagram"
        => /\ Len(last'.sent) <= 1
           /\ \A i \in 1..Len(last'.sent) :
                 last'.sent[i].options.message_type \in {OFFER, ACK}
           /\ last'.type \notin {DISCOVER, REQUEST, RELEASE}
                 => /\ last'.sent = <<>>
                    /\ allocated' = allocated
                    /\ leases' = leases
                    /\ disk' = disk ]_vars

\* a DECLINE or INFORM was handled while a client held an address and a
\* lease
C9_Witness ==
    /\ last.op = "datagram"
    /\ last.type \in {DECLINE, INFORM}
    /\ last.sent = <<>>
    /\ leases # EmptyDict
    /\ \E s \in Subnets : allocated[s] # EmptyDict

\* handling data fails in the current state: the datagram is too short or
\* has no message type, the handler raises, a DISCOVER finds no address, or
\* a REQUEST asks for another address than the one tracked
Fails(data) ==
    \/ ~data.long_enough
    \/ MessageType(data) = None
    \/ handle_request(cfg, allocated, leases, disk, data, now, "ok").raised
    \/ /\ MessageType(data) = DISCOVER
       /\ allocate_ip(cfg, allocated, ClientMac(data), DiscoverIp(data), None).ip = None
    \/ /\ MessageType(data) = REQUEST
       /\ get_ip(cfg, allocated, ClientMac(data)) # RequestIp(data)

\* C10: fault isolation.  A datagram whose handling fails leaves the
\* allocation tables, the leases and the lease file as they were before it
\* (so that every later datagram is handled as if it had never arrived:
\* what handling does depends on these and the clock alone).
C10_FaultIsolation ==
    [][ \A data \in Datagrams :
          ( /\ last'.op = "datagram"
            /\ last'.type = MessageType(data)
            /\ Fails(data)
            /\ Handled(data) )
          => /\ allocated' = allocated
             /\ leases' = leases
             /\ disk' = disk ]_vars

-----------------------------------------------------------------------------
(* Properties of the server over time, checked under SpecHold *)

\* the MAC strings of the clients
ClientMacs == {Mac(c) : c \in 1..MaxClient}

\* C21: an offered address is held without timeout.  An allocation entry
\* (m, ip) of any subnet is still there after every step that is not the
\* handling of a RELEASE from m (a datagram of any MAC, the passage of
\* time, a clean-up of expired leases), and after the step get_ip gives
\* that address to no other MAC.
C21_OfferHeld ==
    [][ \A s \in Subnets : \A m \in DOMAIN allocated[s] :
          ~(\E data \in Releases : ClientMac(data) = m /\ Handled(data))
          => /\ m \in DOMAIN allocated'[s]
             /\ allocated'[s][m] = allocated[s][m]
             /\ \A o \in ClientMacs \ {m} :
                   get_ip(cfg, allocated', o) # allocated[s][m] ]_vars

\* the first half of C21 alone: entries stay until their MAC's RELEASE
EntriesHeld ==
    [][ \A s \in Subnets : \A m \in DOMAIN allocated[s] :
          ~(\E data \in Releases : ClientMac(data) = m /\ Handled(data))
          => /\ m \in DOMAIN allocated'[s]
             /\ allocated'[s][m] = allocated[s][m] ]_vars

-----------------------------------------------------------------------------
(* Properties of the server and its lease file, checked under SpecFaulty *)

\* the lease file holds a record for mac with address ip
OnDisk(file, mac, ip) ==
    /\ file # Truncated
    /\ mac \in DOMAIN file
    /\ file[mac].ip_address = ip

\* C22: durable before ACK.  Whenever an ACK for (mac, ip) is sent, the
\* lease file holds the lease record for mac with that address, also when
\* the write of the lease file fails.
C22_DurableBeforeAck ==
    [][ last'.op = "datagram"
        => \A i \in 1..Len(last'.sent) :
              last'.sent[i].options.message_type = ACK
              => OnDisk(disk', Mac(last'.sent[i].chaddr), last'.sent[i].yiaddr) ]_vars

-----------------------------------------------------------------------------
(* Properties of the replies, checked under Spec *)

\* the subnet IPManager selected for the address ip of mac: the first one
\* that tracks ip for mac, NoSubnet if there is none
WinningSubnet(mac, ip) ==
    LET S == {s \in Subnets : get_ip_for_mac(cfg.subnets[s], allocated[s], mac) = ip}
    IN  IF S = {} THEN NoSubnet ELSE CHOOSE s \in S : \A o \in S : s <= o

\* the options the claim gives a reply of message type t for a winning
\* subnet s
SubnetOptions(s, t) ==
    LET subnet == cfg.subnets[s]
        gateway == IF s # NoSubnet /\ Truthy(subnet.gateway)
                   THEN subnet.gateway ELSE None
    IN  [message_type |-> t,
         server_id |-> IF gateway # None THEN gateway ELSE cfg.server_ip,
         lease_time |-> cfg.lease_time,
         subnet_mask |-> IF s # NoSubnet THEN subnet.subnet_mask ELSE cfg.subnet_mask,
         router |-> IF gateway # None THEN gateway ELSE cfg.gateway,
         dns_server |-> IF s # NoSubnet /\ subnet.dns_servers # <<>>
                        THEN subnet.dns_servers ELSE cfg.dns_servers]

\* C25: the reply options follow the winning subnet.  Every OFFER and ACK
\* carries the mask, router and DNS list of the subnet selected for the
\* allocation where the subnet defines them, and that subnet's gateway as
\* server identifier, the server's own address when the subnet has no
\* gateway or no subnet was selected.
C25_ReplyOptions ==
    [][ last'.op = "datagram"
        => \A i \in 1..Len(last'.sent) :
              LET reply == last'.sent[i]
                  s == WinningSubnet(Mac(reply.chaddr), reply.yiaddr)
              IN  reply.options = SubnetOptions(s, reply.options.message_type) ]_vars

-----------------------------------------------------------------------------
(* Properties of the server on bytes, checked under SpecCookie *)

\* at least 236 bytes, and the bytes 236..239 are missing or are not the
\* magic cookie
BadCookie(bytes) ==
    /\ Len(bytes) >= HeaderLen
    /\ \/ Len(bytes) < HeaderLen + 4
       \/ SubSeq(bytes, HeaderLen + 1, HeaderLen + 4) # MAGIC_COOKIE

\* the header fields of a parsed packet
HeaderFields(p) ==
    <<p.op, p.htype, p.hlen, p.hops, p.xid, p.secs, p.flags, p.ciaddr,
      p.yiaddr, p.siaddr, p.giaddr, p.chaddr, p.sname, p.file>>

\* C26: magic-cookie degradation.  For every datagram of at least 236 bytes
\* whose bytes 236..239 are missing or differ from the magic cookie, parse
\* succeeds, returns the header fields it returns for the same header
\* followed by a valid cookie, and returns no options; the server reads no
\* message type from it, sends no reply and leaves the allocation tables,
\* the leases and the lease file as they were.
C26_CookieDegradation ==
    [][ \A bytes \in CookieInputs :
          ( /\ BadCookie(bytes)
            /\ last'.op = "datagram"
            /\ ListenBytes(bytes) )
          => LET p == DHCPPacket_parse(bytes)
                 q == DHCPPacket_parse(HeaderBytes(bytes) \o MAGIC_COOKIE \o <<END>>)
             IN  /\ p.ok
                 /\ q.ok
                 /\ HeaderFields(p) = HeaderFields(q)
                 /\ p.hlen = bytes[3]
                 /\ p.chaddr = SubSeq(bytes, 29, 28 + bytes[3])
                 /\ p.options = EmptyDict
                 /\ last'.type = None
                 /\ last'.sent = <<>>
                 /\ allocated' = allocated
                 /\ leases' = leases
                 /\ disk' = disk ]_vars

\* a datagram without message type was handled while a client held an
\* address and a lease; every datagram received has option 53 behind the
\* cookie, so this one had a bad or missing cookie
C26_Witness ==
    /\ last.op = "datagram"
    /\ last.type = None
    /\ last.sent = <<>>
    /\ allocated[1] # EmptyDict
    /\ leases # EmptyDict

-----------------------------------------------------------------------------
(* Properties of leases and allocations together, checked under Spec *)

\* C30: lease and allocation agree.  In every state reached from the empty
\* start by DISCOVER, REQUEST and RELEASE datagrams, every lease record
\* (mac, ip) has the address get_ip returns for mac, and no two distinct
\* MACs have lease records for the same address.
C30_LeaseMatchesAllocation ==
    /\ \A mac \in DOMAIN leases :
          leases[mac].ip_address = get_ip(cfg, allocated, mac)
    /\ \A m1, m2 \in DOMAIN leases :
          leases[m1].ip_address = leases[m2].ip_address => m1 = m2

-----------------------------------------------------------------------------
(* Properties of the server across restarts, checked under SpecRestart *)

\* C31: leases survive a restart without conflict.  No datagram, before or
\* after a restart, is answered with an OFFER or ACK that gives a MAC B an
\* address for which another MAC A holds a lease that is still valid.
C31_NoConflictAfterRestart ==
    [][ last'.op = "datagram"
        => \A i \in 1..Len(last'.sent) :
              \A a \in DOMAIN leases :
                  ( /\ a # Mac(last'.sent[i].chaddr)
                    /\ leases[a].ip_address = last'.sent[i].yiaddr )
                  => ~is_lease_valid(leases, a, now) ]_vars

=============================================================================
